---- MODULE Spec2Model ----
(***************************************************************************)
(* A model of the transcript credit calculator (src/app.py).               *)
(*                                                                         *)
(* Text is a sequence of characters.  An ASCII character is the string of *)
(* that one character; a character outside ASCII is written as its code   *)
(* point ("U5B78" is the ideograph 學, "U3000" the full-width space).      *)
(* Decimal numbers (credits) are exact integers in units of 1/Scale;      *)
(* grade points are in tenths, so credit * grade point is in units of     *)
(* 1/(10*Scale).                                                           *)
(***************************************************************************)
EXTENDS Integers, Sequences, FiniteSets, TLC

VARIABLES
    text,                \* parse_credit_and_gpa: the argument
    parsed,              \* parse_credit_and_gpa: the returned pair, or NotYet
    columns_list,        \* make_unique_columns: the argument
    col_idx,             \* make_unique_columns: index of the next label (1-based)
    seen,                \* make_unique_columns: name -> last suffix given
    unique_columns,      \* make_unique_columns: the names made so far
    made,                \* make_unique_columns: the returned list, or NotYet
    accepted,            \* is_grades_table: the returned value, or NotYet
    df_list,             \* calculate_total_credits: the argument
    pc,                  \* calculate_total_credits: position in the function
    df_idx,              \* index of the table being processed (1-based)
    row_idx,             \* index of the next row of that table (1-based)
    identified_columns,  \* role -> column index (0 is None)
    total_credits,
    total_gpa_points,
    calculated_courses,
    failed_courses,
    last_row,            \* what the last processed row did (history)
    roles,               \* identified_columns of the tables passed (history)
    caught,              \* the tables in which an exception was caught (history)
    returned,            \* calculate_total_credits: the returned tuple, or NotYet
    pdf_tables,          \* the tables pdfplumber extracts from the pages, in order
    table_idx,           \* process_pdf_file_with_pdfplumber: index of the next table
    all_grades_data_dfs, \* process_pdf_file_with_pdfplumber: the accepted tables
    pdfplumber_success,
    ocr_result,          \* what process_pdf_file_with_ocr returns for the file
    extracted_dfs,       \* main
    pdfplumber_extracted_successfully,
    main_pc,             \* main: position in the function
    ocr_called           \* process_pdf_file_with_ocr has been called (history)

\* the variables of make_unique_columns
ColumnVars == <<columns_list, col_idx, seen, unique_columns, made>>

\* the variables of main and of process_pdf_file_with_pdfplumber
MainVars == <<pdf_tables, table_idx, all_grades_data_dfs, pdfplumber_success,
              ocr_result, extracted_dfs, pdfplumber_extracted_successfully,
              main_pc, ocr_called>>

vars == <<text, parsed, ColumnVars, accepted, df_list, pc, df_idx, row_idx,
          identified_columns, total_credits, total_gpa_points,
          calculated_courses, failed_courses, last_row, roles, caught,
          returned, MainVars>>

-----------------------------------------------------------------------------
(* Bounds of the model. *)

\* longest text given to parse_credit_and_gpa
MaxTextLen == 4

\* most rows of a table
MaxRows == 2

\* most labels given to make_unique_columns
MaxLabels == 3

-----------------------------------------------------------------------------
(* Characters. *)

Digits == <<"0", "1", "2", "3", "4", "5", "6", "7", "8", "9">>

LowerLetters == <<"a", "b", "c", "d", "e", "f", "g", "h", "i", "j", "k", "l", "m",
                  "n", "o", "p", "q", "r", "s", "t", "u", "v", "w", "x", "y", "z">>

UpperLetters == <<"A", "B", "C", "D", "E", "F", "G", "H", "I", "J", "K", "L", "M",
                  "N", "O", "P", "Q", "R", "S", "T", "U", "V", "W", "X", "Y", "Z">>

Range(s) == {s[i] : i \in 1..Len(s)}

DigitChars == Range(Digits)

LowerChars == Range(LowerLetters)

UpperChars == Range(UpperLetters)

\* \d
IsDigit(c) == c \in DigitChars

\* [a-z]
IsLower(c) == c \in LowerChars

\* [A-Z]
IsUpper(c) == c \in UpperChars

\* [A-Za-z0-9]
IsAlnum(c) == IsDigit(c) \/ IsLower(c) \/ IsUpper(c)

\* white space without the full-width space
IsSpace_NoFullWidth(c) == c \in {" ", "\n", "\t"}

\* \s and 　: space, newline, tab, full-width space
IsSpace(c) == c \in {" ", "\n", "\t", "U3000"}

\* the ideographs [一-龥] that occur in the keyword tables and cells
CJKChars ==
    {"U5B78", "U5206", "U6578", "U7E3D", "U79D1", "U76EE", "U540D", "U7A31",
     "U8AB2", "U7A0B", "U6210", "U7E3E", "U5E74", "U5EA6", "U671F", "U9078",
     "U4EE3", "U865F", "U78BC", "U901A", "U904E", "U62B5", "U514D", "U4E0D",
     "U53CA", "U683C", "U672A", "U4E0A", "U4E0B", "U6625", "U590F", "U79CB",
     "U51AC", "U5B63", "U5FAE", "U7A4D", "U7269", "U7406", "U672C", "U8868",
     "U50C5", "U4F9B", "U67E5", "U8A62", "U52DE", "U4F5C", "U9AD4", "U80B2",
     "U5BA4", "U7562", "U696D", "U9580", "U6ABB", "U7DB2", "U7AD9", "U8A3B",
     "U7D44", "U7D1A", "U73ED", "U7CFB", "U5225", "U5E38", "U8B58", "U59D3",
     "U77E5", "U503C"}

\* [一-龥]
IsCJK(c) == c \in CJKChars

\* str.lower() on one character
LowerChar(c) ==
    IF IsUpper(c)
    THEN LowerLetters[CHOOSE i \in 1..26 : UpperLetters[i] = c]
    ELSE c

\* str.upper() on one character
UpperChar(c) ==
    IF IsLower(c)
    THEN UpperLetters[CHOOSE i \in 1..26 : LowerLetters[i] = c]
    ELSE c

\* str.lower()
Lower(s) == [i \in 1..Len(s) |-> LowerChar(s[i])]

\* str.upper()
Upper(s) == [i \in 1..Len(s) |-> UpperChar(s[i])]

-----------------------------------------------------------------------------
(* Strings. *)

\* s[i:] (1-based i)
From(s, i) == SubSeq(s, i, Len(s))

\* sub occurs in s at position i
MatchAt(s, sub, i) ==
    /\ i >= 1
    /\ i + Len(sub) - 1 <= Len(s)
    /\ \A k \in 1..Len(sub) : s[i + k - 1] = sub[k]

\* sub in s
Contains(s, sub) == \E i \in 1..(Len(s) - Len(sub) + 1) : MatchAt(s, sub, i)

\* any(k in s for k in keys)
ContainsAny(s, keys) == \E k \in keys : Contains(s, k)

\* s.replace(sub, ''): every non-overlapping occurrence, left to right
RECURSIVE RemoveAll(_, _)
RemoveAll(s, sub) ==
    IF Len(sub) = 0 \/ Len(s) = 0 THEN s
    ELSE IF MatchAt(s, sub, 1) THEN RemoveAll(From(s, Len(sub) + 1), sub)
    ELSE <<s[1]>> \o RemoveAll(Tail(s), sub)

\* s.replace(' ', '').replace('\n', ''), re.sub(r'[\s\n]+', '', s): on
\* normalized text, where the only white space left is ' ', both delete it
RemoveSpaces(s) == SelectSeq(s, LAMBDA c : ~IsSpace(c))

\* str.isdigit()
isdigit(s) == Len(s) > 0 /\ \A i \in 1..Len(s) : IsDigit(s[i])

-----------------------------------------------------------------------------
(* normalize_text *)

\* a cell value: None, an object with a text attribute, or a string
None == [kind |-> "none"]
Str(s) == [kind |-> "str", val |-> s]
TextObj(s) == [kind |-> "obj", val |-> s]

\* a cell value of another type, given by its str()
Other(s) == [kind |-> "other", val |-> s]

\* re.sub(r'[\s　]+', ' ', text): each run of white space becomes ' '
RECURSIVE CollapseSpaces(_)
CollapseSpaces(s) ==
    IF Len(s) = 0 THEN s
    ELSE IF IsSpace(s[1])
         THEN IF Len(s) > 1 /\ IsSpace(s[2])
              THEN CollapseSpaces(Tail(s))
              ELSE <<" ">> \o CollapseSpaces(Tail(s))
         ELSE <<s[1]>> \o CollapseSpaces(Tail(s))

\* str.strip()
RECURSIVE Strip(_)
Strip(s) ==
    IF Len(s) = 0 THEN s
    ELSE IF IsSpace(s[1]) THEN Strip(Tail(s))
    ELSE IF IsSpace(s[Len(s)]) THEN Strip(SubSeq(s, 1, Len(s) - 1))
    ELSE s

\* the text of a text object is returned as it is
normalize_text_RawObject(cell_content) ==
    IF cell_content.kind = "none" THEN <<>>
    ELSE IF cell_content.kind = "obj" THEN cell_content.val
    ELSE Strip(CollapseSpaces(cell_content.val))

normalize_text(cell_content) ==
    IF cell_content.kind = "none" THEN <<>>
    ELSE Strip(CollapseSpaces(cell_content.val))

-----------------------------------------------------------------------------
(* make_unique_columns *)

\* str(n) of a natural number
RECURSIVE str(_)
str(n) ==
    IF n < 10 THEN <<Digits[n + 1]>>
    ELSE str(n \div 10) \o <<Digits[(n % 10) + 1]>>

\* f"{name}_{n}"
Suffixed(name, n) == name \o <<"_">> \o str(n)

name_base == <<"C", "o", "l", "u", "m", "n">>

\* while f"{name_base}_{current_idx}" in unique_columns: current_idx += 1
RECURSIVE GenericIndex(_, _)
GenericIndex(current_idx, unique) ==
    IF Suffixed(name_base, current_idx) \in Range(unique)
    THEN GenericIndex(current_idx + 1, unique)
    ELSE current_idx

\* the name of a label: the normalized label, or a generic name when that
\* is empty or one character
ColumnName(col, unique) ==
    LET Name(original_col_cleaned) ==
            IF Len(original_col_cleaned) < 2
            THEN Suffixed(name_base, GenericIndex(1, unique))
            ELSE original_col_cleaned
    IN  Name(normalize_text(col))

\* the name is appended as it is, taken or not
FinalName_AsGiven(final_name, name, counter, unique) ==
    [final_name |-> final_name, counter |-> counter]

\* the counter goes up by two at each turn of the loop
RECURSIVE FinalName_ByTwo(_, _, _, _)
FinalName_ByTwo(final_name, name, counter, unique) ==
    IF final_name \in Range(unique)
    THEN FinalName_ByTwo(Suffixed(name, counter + 2), name, counter + 2, unique)
    ELSE [final_name |-> final_name, counter |-> counter]

\* while final_name in unique_columns: counter += 1;
\* final_name = f"{name}_{counter}"
RECURSIVE FinalName(_, _, _, _)
FinalName(final_name, name, counter, unique) ==
    IF final_name \in Range(unique)
    THEN FinalName(Suffixed(name, counter + 1), name, counter + 1, unique)
    ELSE [final_name |-> final_name, counter |-> counter]

\* seen = collections.defaultdict(int)
NoneSeen == [name \in {} |-> 0]

\* seen[name]
SeenCount(seen_names, name) ==
    IF name \in DOMAIN seen_names THEN seen_names[name] ELSE 0

\* seen[name] = counter
SeenWith(seen_names, name, counter) ==
    [n \in DOMAIN seen_names \cup {name} |->
        IF n = name THEN counter ELSE seen_names[n]]

-----------------------------------------------------------------------------
(* Numbers: float() of a text matched by \d+(\.\d+)? *)

RECURSIVE Pow10(_)
Pow10(n) == IF n <= 0 THEN 1 ELSE 10 * Pow10(n - 1)

\* A fraction in a text of MaxTextLen characters follows a digit and a dot.
FracDigits == MaxTextLen - 2

\* one unit of credit
Scale == Pow10(FracDigits)

DigitVal(c) == (CHOOSE i \in 1..10 : Digits[i] = c) - 1

RECURSIVE IntVal(_)
IntVal(s) ==
    IF Len(s) = 0 THEN 0
    ELSE 10 * IntVal(SubSeq(s, 1, Len(s) - 1)) + DigitVal(s[Len(s)])

\* position of the first '.' of s, or 0
DotPos(s) ==
    IF \E i \in 1..Len(s) : s[i] = "."
    THEN CHOOSE i \in 1..Len(s) : s[i] = "." /\ \A j \in 1..(i - 1) : s[j] # "."
    ELSE 0

\* float(s), in units of 1/Scale
float(s) ==
    LET d == DotPos(s) IN
    IF d = 0 THEN IntVal(s) * Scale
    ELSE LET frac == From(s, d + 1) IN
         IntVal(SubSeq(s, 1, d - 1)) * Scale
           + IntVal(frac) * Pow10(FracDigits - Len(frac))

-----------------------------------------------------------------------------
(* The regular expressions of parse_credit_and_gpa, matched greedily. *)

\* end (exclusive) of the run of digits of s that starts at i
RECURSIVE DigitsEnd(_, _)
DigitsEnd(s, i) ==
    IF i <= Len(s) /\ IsDigit(s[i]) THEN DigitsEnd(s, i + 1) ELSE i

\* end (exclusive) of the run of white space of s that starts at i
RECURSIVE SpacesEnd(_, _)
SpacesEnd(s, i) ==
    IF i <= Len(s) /\ IsSpace(s[i]) THEN SpacesEnd(s, i + 1) ELSE i

\* \d+(\.\d+)? at i: end (exclusive) of the match; i when there is none
NumberEnd(s, i) ==
    LET e == DigitsEnd(s, i) IN
    IF e > i /\ e <= Len(s) /\ s[e] = "." /\ DigitsEnd(s, e + 1) > e + 1
    THEN DigitsEnd(s, e + 1)
    ELSE e

\* mutant of GradeEnd: the modifier is not taken
GradeEnd_NoModifier(s, i) ==
    IF i <= Len(s) /\ IsLower(s[i]) THEN i + 1 ELSE i

\* [a-z][+\-]? at i: end (exclusive) of the match; i when there is none
GradeEnd(s, i) ==
    IF i <= Len(s) /\ IsLower(s[i])
    THEN IF i + 1 <= Len(s) /\ s[i + 1] \in {"+", "-"} THEN i + 2 ELSE i + 1
    ELSE i

NoMatch == [ok |-> FALSE]

\* re.match(r'([a-z][+\-]?)\s*(\d+(\.\d+)?)', s)
match_gpa_credit(s) ==
    LET g == GradeEnd(s, 1)
        n == SpacesEnd(s, g)
        e == NumberEnd(s, n)
    IN IF g > 1 /\ e > n
       THEN [ok |-> TRUE, gpa |-> SubSeq(s, 1, g - 1), num |-> SubSeq(s, n, e - 1)]
       ELSE NoMatch

\* re.match(r'(\d+(\.\d+)?)\s*([a-z][+\-]?)', s)
match_credit_gpa(s) ==
    LET e == NumberEnd(s, 1)
        n == SpacesEnd(s, e)
        g == GradeEnd(s, n)
    IN IF e > 1 /\ g > n
       THEN [ok |-> TRUE, gpa |-> SubSeq(s, n, g - 1), num |-> SubSeq(s, 1, e - 1)]
       ELSE NoMatch

\* re.search(r'(\d+(\.\d+)?)', s): the leftmost number
credit_only_match(s) ==
    IF \E i \in 1..Len(s) : IsDigit(s[i])
    THEN LET i == CHOOSE i \in 1..Len(s) :
                      IsDigit(s[i]) /\ \A j \in 1..(i - 1) : ~IsDigit(s[j])
         IN [ok |-> TRUE, num |-> SubSeq(s, i, NumberEnd(s, i) - 1)]
    ELSE NoMatch

\* re.search(r'([a-z][+\-]?)', s): the leftmost letter, with its modifier
gpa_only_match(s) ==
    IF \E i \in 1..Len(s) : IsLower(s[i])
    THEN LET i == CHOOSE i \in 1..Len(s) :
                      IsLower(s[i]) /\ \A j \in 1..(i - 1) : ~IsLower(s[j])
         IN [ok |-> TRUE, gpa |-> SubSeq(s, i, GradeEnd(s, i) - 1)]
    ELSE NoMatch

-----------------------------------------------------------------------------
(* parse_credit_and_gpa *)

kw_pass == <<"p", "a", "s", "s">>
kw_exempt == <<"e", "x", "e", "m", "p", "t">>
\* 通過
kw_tongguo == <<"U901A", "U904E">>
\* 抵免
kw_dimian == <<"U62B5", "U514D">>

\* "通過" in s or "抵免" in s or "pass" in s or "exempt" in s
HasPassKeyword(s) == ContainsAny(s, {kw_tongguo, kw_dimian, kw_pass, kw_exempt})

\* the credit ceiling, 5.0
MaxCredit == 5 * Scale

\* mutant of InCreditRange: no ceiling
InCreditRange_NoCeiling(credit) == 0 <= credit

\* 0.0 <= credit <= 5.0
InCreditRange(credit) == 0 <= credit /\ credit <= MaxCredit

\* the steps after the pass/exempt test, on the lower-cased normalized text
ParseSteps(text_clean) ==
    LET m1 == match_gpa_credit(text_clean)
        m2 == match_credit_gpa(text_clean)
        m3 == credit_only_match(text_clean)
        m4 == gpa_only_match(text_clean)
    IN  IF m1.ok /\ InCreditRange(float(m1.num))
        THEN [credit |-> float(m1.num), gpa |-> Upper(m1.gpa)]
        ELSE IF m2.ok /\ InCreditRange(float(m2.num))
        THEN [credit |-> float(m2.num), gpa |-> Upper(m2.gpa)]
        ELSE IF m3.ok /\ InCreditRange(float(m3.num))
        THEN LET rest == gpa_only_match(RemoveAll(text_clean, m3.num)) IN
             [credit |-> float(m3.num),
              gpa |-> IF rest.ok THEN Upper(rest.gpa) ELSE <<>>]
        ELSE IF m4.ok
        THEN [credit |-> 0, gpa |-> Upper(m4.gpa)]
        ELSE [credit |-> 0, gpa |-> <<>>]

parse_credit_and_gpa(cell) ==
    LET text_clean == Lower(normalize_text(cell)) IN
    IF HasPassKeyword(text_clean)
    THEN [credit |-> 0, gpa |-> text_clean]
    ELSE ParseSteps(text_clean)

-----------------------------------------------------------------------------
(* The keyword tables. *)

\* 學分, 學分數, 學分(GPA), 學 分, Credits, Credit, 學分數(學分), 總學分
credit_column_keywords ==
    << <<"U5B78", "U5206">>,
     <<"U5B78", "U5206", "U6578">>,
     <<"U5B78", "U5206", "(", "G", "P", "A", ")">>,
     <<"U5B78", " ", "U5206">>,
     <<"C", "r", "e", "d", "i", "t", "s">>,
     <<"C", "r", "e", "d", "i", "t">>,
     <<"U5B78", "U5206", "U6578", "(", "U5B78", "U5206", ")">>,
     <<"U7E3D", "U5B78", "U5206">> >>

\* 科目名稱, 課程名稱, Course Name, Subject Name, 科目, 課程
subject_column_keywords ==
    << <<"U79D1", "U76EE", "U540D", "U7A31">>,
     <<"U8AB2", "U7A0B", "U540D", "U7A31">>,
     <<"C", "o", "u", "r", "s", "e", " ", "N", "a", "m", "e">>,
     <<"S", "u", "b", "j", "e", "c", "t", " ", "N", "a", "m", "e">>,
     <<"U79D1", "U76EE">>,
     <<"U8AB2", "U7A0B">> >>

\* GPA, 成績, Grade, gpa(數值)
gpa_column_keywords ==
    << <<"G", "P", "A">>,
     <<"U6210", "U7E3E">>,
     <<"G", "r", "a", "d", "e">>,
     <<"g", "p", "a", "(", "U6578", "U503C", ")">> >>

\* 學年, year, 學 年, 學年度
year_column_keywords ==
    << <<"U5B78", "U5E74">>,
     <<"y", "e", "a", "r">>,
     <<"U5B78", " ", "U5E74">>,
     <<"U5B78", "U5E74", "U5EA6">> >>

\* 學期, semester, 學 期
semester_column_keywords ==
    << <<"U5B78", "U671F">>,
     <<"s", "e", "m", "e", "s", "t", "e", "r">>,
     <<"U5B78", " ", "U671F">> >>

\* 選課代號, 課號, 課程代碼, course code
course_code_keywords ==
    << <<"U9078", "U8AB2", "U4EE3", "U865F">>,
     <<"U8AB2", "U865F">>,
     <<"U8AB2", "U7A0B", "U4EE3", "U78BC">>,
     <<"c", "o", "u", "r", "s", "e", " ", "c", "o", "d", "e">> >>

\* D, D-, E, F, X, 不通過, 未通過, 不及格, fail, failed
failing_grades ==
    << <<"D">>,
     <<"D", "-">>,
     <<"E">>,
     <<"F">>,
     <<"X">>,
     <<"U4E0D", "U901A", "U904E">>,
     <<"U672A", "U901A", "U904E">>,
     <<"U4E0D", "U53CA", "U683C">>,
     <<"f", "a", "i", "l">>,
     <<"f", "a", "i", "l", "e", "d">> >>

\* the semester tokens, in the order of the alternation of lines 402 and 412
\* 上, 下, 春, 夏, 秋, 冬, 1, 2, 3, 春季, 夏季, 秋季, 冬季, spring, summer, fall, winter
semester_tokens ==
    << <<"U4E0A">>,
     <<"U4E0B">>,
     <<"U6625">>,
     <<"U590F">>,
     <<"U79CB">>,
     <<"U51AC">>,
     <<"1">>,
     <<"2">>,
     <<"3">>,
     <<"U6625", "U5B63">>,
     <<"U590F", "U5B63">>,
     <<"U79CB", "U5B63">>,
     <<"U51AC", "U5B63">>,
     <<"s", "p", "r", "i", "n", "g">>,
     <<"s", "u", "m", "m", "e", "r">>,
     <<"f", "a", "l", "l">>,
     <<"w", "i", "n", "t", "e", "r">> >>

\* the administrative phrases of line 383
\* 本表僅供查詢, 學號, 勞作, 體育室, 畢業門檻, 網站, http
noise_phrases ==
    << <<"U672C", "U8868", "U50C5", "U4F9B", "U67E5", "U8A62">>,
     <<"U5B78", "U865F">>,
     <<"U52DE", "U4F5C">>,
     <<"U9AD4", "U80B2", "U5BA4">>,
     <<"U7562", "U696D", "U9580", "U6ABB">>,
     <<"U7DB2", "U7AD9">>,
     <<"h", "t", "t", "p">> >>

\* the label patterns of line 460
\* 學號, 本表, 註課組, 年級, 班級, 系別, 畢業門檻, 體育常識, 學號, 姓名, 班級, 系別
subject_denylist ==
    << <<"U5B78", "U865F">>,
     <<"U672C", "U8868">>,
     <<"U8A3B", "U8AB2", "U7D44">>,
     <<"U5E74", "U7D1A">>,
     <<"U73ED", "U7D1A">>,
     <<"U7CFB", "U5225">>,
     <<"U7562", "U696D", "U9580", "U6ABB">>,
     <<"U9AD4", "U80B2", "U5E38", "U8B58">>,
     <<"U5B78", "U865F">>,
     <<"U59D3", "U540D">>,
     <<"U73ED", "U7D1A">>,
     <<"U7CFB", "U5225">> >>

\* the cells that stand for a pass or an exemption (lines 230, 300, 427)
\* 通過, 抵免, pass, exempt
pass_words ==
    << <<"U901A", "U904E">>,
     <<"U62B5", "U514D">>,
     <<"p", "a", "s", "s">>,
     <<"e", "x", "e", "m", "p", "t">> >>

\* 未知科目, the sentinel subject name
unknown_subject == <<"U672A", "U77E5", "U79D1", "U76EE">>

\* [re.sub(r'[\s\n]+', '', kw.lower()) for kw in keywords]
NormKeywords(keywords) == {RemoveSpaces(Lower(keywords[i])) : i \in 1..Len(keywords)}

all_header_keywords_flat_lower ==
    NormKeywords(credit_column_keywords \o subject_column_keywords
                 \o gpa_column_keywords \o year_column_keywords
                 \o semester_column_keywords \o course_code_keywords)

\* normalize_text(col).lower().replace(' ', '').replace('\n', '')
HeaderKey(col_name) == RemoveSpaces(Lower(normalize_text(Str(col_name))))

\* the keyword lists as they are matched against a header
credit_keys == NormKeywords(credit_column_keywords)
subject_keys == NormKeywords(subject_column_keywords)
gpa_keys == NormKeywords(gpa_column_keywords)
year_keys == NormKeywords(year_column_keywords)
semester_keys == NormKeywords(semester_column_keywords)
course_code_keys == NormKeywords(course_code_keywords)

\* any(k in norm_col for k in [normalized keywords])
HeaderHas(col_name, keys) == ContainsAny(HeaderKey(col_name), keys)

-----------------------------------------------------------------------------
(* The content patterns of a normalized cell. *)

\* item_str.isdigit() and len(item_str) in (3, 4)
IsYearLike(s) == isdigit(s) /\ Len(s) \in {3, 4}

\* item_str.lower() in [semester tokens]
IsSemesterLike(s) == Lower(s) \in Range(semester_tokens)

\* re.match(r'^[A-Za-z0-9]{3,8}$', s)
IsCodePattern(s) == Len(s) >= 3 /\ Len(s) <= 8 /\ \A i \in 1..Len(s) : IsAlnum(s[i])

\* a course code: the code pattern, and not all digits
IsCourseCodeLike(s) == IsCodePattern(s) /\ ~isdigit(s)

\* re.match(r'^[A-Fa-f][+\-]?$', s)
IsGradeAF(s) ==
    /\ Len(s) \in {1, 2}
    /\ LowerChar(s[1]) \in {"a", "b", "c", "d", "e", "f"}
    /\ Len(s) = 2 => s[2] \in {"+", "-"}

\* re.match(r'^\d+(\.\d+)?$', s)
IsPlainNumber(s) == Len(s) > 0 /\ NumberEnd(s, 1) = Len(s) + 1

\* the subject pattern of lines 212-220 and 304-312
IsSubjectLike(s) ==
    /\ \E i \in 1..Len(s) : IsCJK(s[i])
    /\ Len(s) >= 2
    /\ ~isdigit(s)
    /\ ~IsGradeAF(s)
    /\ ~IsPlainNumber(s)
    /\ ~IsCodePattern(s)
    /\ Lower(s) \notin (Range(pass_words) \cup {unknown_subject})
    /\ ~ContainsAny(RemoveSpaces(Lower(s)), all_header_keywords_flat_lower)

\* item_str.lower() in ["通過", "抵免", "pass", "exempt"]
IsPassWord(s) == Lower(s) \in Range(pass_words)

\* the credit/GPA pattern of calculate_total_credits (lines 297-300)
IsCreditGpaLike(s) ==
    LET Like(r) == \/ (InCreditRange(r.credit) /\ r.credit # 0)
                   \/ (Len(r.gpa) > 0 /\ IsGradeAF(r.gpa))
                   \/ IsPassWord(s)
    IN Like(parse_credit_and_gpa(Str(s)))

\* the credit/GPA pattern of is_grades_table (lines 227-230)
IsCreditGpaLikeLoose(s) ==
    LET Like(r) == \/ InCreditRange(r.credit)
                   \/ (Len(r.gpa) > 0 /\ IsGradeAF(r.gpa))
                   \/ IsPassWord(s)
    IN Like(parse_credit_and_gpa(Str(s)))

-----------------------------------------------------------------------------
(* Tables.  A table (DataFrame) is its column labels and its rows of cells; *)
(* the labels of a table are distinct, so a column is named by its index,  *)
(* and 0 stands for None.                                                  *)

\* df.head(min(len(df), 20)): the rows that are sampled
SampleLimit == 20

Min(a, b) == IF a < b THEN a ELSE b

NumCols(df) == Len(df.columns)

\* df.empty
IsEmptyTable(df) == Len(df.rows) = 0 \/ NumCols(df) = 0

\* total_sample_count
SampleCount(df) == Min(Len(df.rows), SampleLimit)

\* sample_data: the normalized cells of column c in the sampled rows
SampleData(df, c) ==
    [i \in 1..SampleCount(df) |-> normalize_text(Str(df.rows[i][c]))]

\* a cell matches the content pattern of a role; "credit_or_gpa" is the
\* credit/GPA pattern of is_grades_table
IsLike(pattern, s) ==
    CASE pattern = "year" -> IsYearLike(s)
      [] pattern = "semester" -> IsSemesterLike(s)
      [] pattern = "course_code" -> IsCourseCodeLike(s)
      [] pattern = "credit_gpa_combined" -> IsCreditGpaLike(s)
      [] pattern = "credit_or_gpa" -> IsCreditGpaLikeLoose(s)
      [] pattern = "subject" -> IsSubjectLike(s)

\* sum(1 for item_str in sample_data if <pattern>(item_str))
CountLike(sample_data, pattern) ==
    Cardinality({i \in 1..Len(sample_data) : IsLike(pattern, sample_data[i])})

-----------------------------------------------------------------------------
(* The column scores of calculate_total_credits (lines 266-318).  A score  *)
(* is kept in units of 1/total_sample_count, the same for all columns of a *)
(* table: the header weight 2.0 is 2 * total_sample_count units.            *)

HeaderRoles == <<"year", "semester", "course_code", "subject", "credit", "gpa">>

ContentRoles == <<"year", "semester", "course_code", "credit_gpa_combined", "subject">>

HeaderRoleSet == Range(HeaderRoles)

AllRoles == HeaderRoleSet \cup Range(ContentRoles)

RoleKeywords(role) ==
    CASE role = "year" -> year_keys
      [] role = "semester" -> semester_keys
      [] role = "course_code" -> course_code_keys
      [] role = "subject" -> subject_keys
      [] role = "credit" -> credit_keys
      [] role = "gpa" -> gpa_keys

\* the header-keyword score of (column, role): 2.0 on a match
HeaderScore(df, c, role) ==
    IF role \in HeaderRoleSet /\ HeaderHas(df.columns[c], RoleKeywords(role))
    THEN 2 * SampleCount(df)
    ELSE 0

\* the content score of (column, role): the share of matching sampled cells
ContentScore(df, c, role) ==
    IF role \in Range(ContentRoles) THEN CountLike(SampleData(df, c), role) ELSE 0

\* col_role_scores[col_name][role]
col_role_scores(df, c, role) == HeaderScore(df, c, role) + ContentScore(df, c, role)

IndexIn(seq, x) == CHOOSE i \in 1..Len(seq) : seq[i] = x

\* The place of role among the keys of col_role_scores[col_name]: the keys
\* are inserted at their first +=, the header matches (lines 278-289) before
\* the content scores (lines 314-318); 0 for a role that is no key.
RoleRank(df, c, role) ==
    IF HeaderScore(df, c, role) > 0
    THEN IndexIn(HeaderRoles, role)
    ELSE IF role \in Range(ContentRoles)
    THEN Len(HeaderRoles) + IndexIn(ContentRoles, role)
    ELSE 0

\* the (score, col_name, role) triples with score > 0 (lines 321-325)
Candidates(df) ==
    LET scored == {[score |-> col_role_scores(df, c, role), col |-> c, role |-> role,
                    rank |-> RoleRank(df, c, role)] :
                      c \in 1..NumCols(df), role \in AllRoles}
    IN {x \in scored : x.score > 0}

\* among equal scores the rightmost column is first
SortsBefore_RightmostFirst(x, y) ==
    \/ x.score > y.score
    \/ x.score = y.score /\ x.col > y.col
    \/ x.score = y.score /\ x.col = y.col /\ x.rank < y.rank

\* x is before y after the stable sort by (-score, column index) of line 327
SortsBefore(x, y) ==
    \/ x.score > y.score
    \/ x.score = y.score /\ x.col < y.col
    \/ x.score = y.score /\ x.col = y.col /\ x.rank < y.rank

\* candidate_assignments after the sort
candidate_assignments(df) ==
    LET Sorted(cands) ==
            [i \in 1..Cardinality(cands) |->
                CHOOSE x \in cands : Cardinality({y \in cands : SortsBefore(y, x)}) = i - 1]
    IN Sorted(Candidates(df))

NoColumns == [role \in HeaderRoleSet |-> 0]

\* mutant of AssignOne: a column that has a role already is not passed over
AssignOne_NoTaken(df, ident, cand) ==
    IF cand.role = "credit_gpa_combined"
    THEN IF ident["credit"] = 0 THEN [ident EXCEPT !["credit"] = cand.col]
         ELSE IF ident["gpa"] = 0 THEN [ident EXCEPT !["gpa"] = cand.col]
         ELSE ident
    ELSE IF ident[cand.role] = 0
    THEN [ident EXCEPT ![cand.role] = cand.col]
    ELSE ident

\* one step of the loop of lines 330-347: the candidate is taken or passed
AssignOne(df, ident, cand) ==
    LET taken == {ident[r] : r \in DOMAIN ident} \ {0}
        c == cand.col
    IN
    IF c \in taken THEN ident
    ELSE IF cand.role = "credit_gpa_combined"
    THEN IF ident["credit"] = 0 /\ HeaderHas(df.columns[c], credit_keys)
         THEN [ident EXCEPT !["credit"] = c]
         ELSE IF ident["gpa"] = 0 /\ HeaderHas(df.columns[c], gpa_keys)
         THEN [ident EXCEPT !["gpa"] = c]
         ELSE IF ident["credit"] = 0
         THEN [ident EXCEPT !["credit"] = c]
         ELSE IF ident["gpa"] = 0
         THEN [ident EXCEPT !["gpa"] = c]
         ELSE ident
    ELSE IF ident[cand.role] = 0
    THEN [ident EXCEPT ![cand.role] = c]
    ELSE ident

\* the loop of lines 329-347 from candidate i on
RECURSIVE AssignFrom(_, _, _, _)
AssignFrom(df, cands, i, ident) ==
    IF i > Len(cands) THEN ident
    ELSE AssignFrom(df, cands, i + 1, AssignOne(df, ident, cands[i]))

\* identified_columns before the loop of lines 329-347 and after each of its
\* first n turns
RECURSIVE AssignTrace(_, _, _)
AssignTrace(df, cands, n) ==
    IF n = 0 THEN <<NoColumns>>
    ELSE LET Turn(trace) == Append(trace, AssignOne(df, trace[n], cands[n]))
         IN Turn(AssignTrace(df, cands, n - 1))

\* identified_columns after the assignment
AssignRoles(df) == AssignFrom(df, candidate_assignments(df), 1, NoColumns)

\* the test of line 356
HasRequiredColumns(ident) ==
    /\ ident["year"] # 0
    /\ ident["semester"] # 0
    /\ ident["subject"] # 0
    /\ (ident["credit"] # 0 \/ ident["gpa"] # 0)

-----------------------------------------------------------------------------
(* is_grades_table *)

\* some column's share of sampled cells that match P is at least num/den
FoundByContent(df, pattern, num, den) ==
    \E c \in 1..NumCols(df) :
        /\ SampleCount(df) > 0
        /\ den * CountLike(SampleData(df, c), pattern) >= num * SampleCount(df)

\* has_<role>_col_header
HasColHeader(df, keys) == \E c \in 1..NumCols(df) : HeaderHas(df.columns[c], keys)

is_grades_table(df) ==
    IF IsEmptyTable(df) \/ NumCols(df) < 3 THEN FALSE
    ELSE IF /\ HasColHeader(df, subject_keys)
            /\ (HasColHeader(df, credit_keys) \/ HasColHeader(df, gpa_keys))
            /\ HasColHeader(df, year_keys)
            /\ HasColHeader(df, semester_keys)
    THEN TRUE
    ELSE /\ FoundByContent(df, "subject", 4, 10)
         /\ FoundByContent(df, "year", 6, 10)
         /\ FoundByContent(df, "semester", 6, 10)
         /\ FoundByContent(df, "credit_or_gpa", 4, 10)

-----------------------------------------------------------------------------
(* The row interpreter of calculate_total_credits (lines 366-540). *)

\* row_content_normalized
RowNormalized(row) == [i \in 1..Len(row) |-> normalize_text(Str(row[i]))]

\* cell_val.lower().replace(' ', '').replace('\n', '') in all_header_keywords_flat_lower
IsHeaderKeywordCell(cell_val) ==
    RemoveSpaces(Lower(cell_val)) \in all_header_keywords_flat_lower

header_keyword_matches(cells) ==
    Cardinality({i \in 1..Len(cells) : IsHeaderKeywordCell(cells[i])})

\* mutant of IsHeaderRow: four keyword cells are asked for, not three
IsHeaderRow_FourMatches(cells) ==
    \/ (2 * header_keyword_matches(cells) >= Len(cells) /\ header_keyword_matches(cells) >= 4)
    \/ (Len(cells) > 0 /\ cells[1] = <<>> /\ header_keyword_matches(cells) >= 4)

\* is_header_row_content (lines 377-378)
IsHeaderRow(cells) ==
    \/ (2 * header_keyword_matches(cells) >= Len(cells) /\ header_keyword_matches(cells) >= 3)
    \/ (Len(cells) > 0 /\ cells[1] = <<>> /\ header_keyword_matches(cells) >= 3)

\* an empty row, an administrative text or a footer (lines 382-383)
IsNoiseRow(cells) ==
    \/ \A i \in 1..Len(cells) : cells[i] = <<>>
    \/ \E i \in 1..Len(cells) : ContainsAny(cells[i], Range(noise_phrases))

\* three digits of s start at i
ThreeDigitsAt(s, i) == i + 2 <= Len(s) /\ \A k \in i..(i + 2) : IsDigit(s[k])

\* the whole cell is taken as the year
year_match_WholeCell(s) == s

\* re.search(r'(\d{3,4})', s).group(1), or "" when there is no match
year_match(s) ==
    IF \E i \in 1..Len(s) : ThreeDigitsAt(s, i)
    THEN LET i == CHOOSE i \in 1..Len(s) :
                      ThreeDigitsAt(s, i) /\ \A j \in 1..(i - 1) : ~ThreeDigitsAt(s, j)
         IN SubSeq(s, i, IF i + 3 <= Len(s) /\ IsDigit(s[i + 3]) THEN i + 3 ELSE i + 2)
    ELSE <<>>

\* some alternative of the semester pattern matches s at i, ignoring case
SemesterAt(s, i) == \E k \in 1..Len(semester_tokens) : MatchAt(Lower(s), semester_tokens[k], i)

\* re.search(r'(上|下|...|winter)', s, re.IGNORECASE).group(1), or "": the
\* leftmost place where an alternative matches, and the first alternative
\* that matches there
sem_match(s) ==
    IF \E i \in 1..Len(s) : SemesterAt(s, i)
    THEN LET i == CHOOSE i \in 1..Len(s) :
                      SemesterAt(s, i) /\ \A j \in 1..(i - 1) : ~SemesterAt(s, j)
             k == CHOOSE k \in 1..Len(semester_tokens) :
                      /\ MatchAt(Lower(s), semester_tokens[k], i)
                      /\ \A j \in 1..(k - 1) : ~MatchAt(Lower(s), semester_tokens[j], i)
         IN SubSeq(s, i, i + Len(semester_tokens[k]) - 1)
    ELSE <<>>

\* the scan of the first three columns (lines 407-418), from column i on
RECURSIVE ScanFirstColumns(_, _, _, _, _)
ScanFirstColumns(row, i, limit, acad_year, semester) ==
    IF i > limit \/ (acad_year # <<>> /\ semester # <<>>)
    THEN [acad_year |-> acad_year, semester |-> semester]
    ELSE LET col_content == normalize_text(Str(row[i])) IN
         ScanFirstColumns(row, i + 1, limit,
             IF year_match(col_content) # <<>> /\ acad_year = <<>>
             THEN year_match(col_content) ELSE acad_year,
             IF sem_match(col_content) # <<>> /\ semester = <<>>
             THEN sem_match(col_content) ELSE semester)

\* acad_year and semester of a row (lines 394-418)
YearAndSemester(ident, row) ==
    LET Fallback(acad_year, semester) ==
            IF acad_year = <<>> /\ semester = <<>>
            THEN ScanFirstColumns(row, 1, Min(Len(row), 3), acad_year, semester)
            ELSE [acad_year |-> acad_year, semester |-> semester]
    IN Fallback(IF ident["year"] # 0
                THEN year_match(normalize_text(Str(row[ident["year"]])))
                ELSE <<>>,
                IF ident["semester"] # 0
                THEN sem_match(normalize_text(Str(row[ident["semester"]])))
                ELSE <<>>)

\* course_code of a row (lines 420-423)
CourseCode(ident, row) ==
    IF ident["course_code"] # 0
       /\ IsCodePattern(normalize_text(Str(row[ident["course_code"]])))
    THEN normalize_text(Str(row[ident["course_code"]]))
    ELSE <<>>

\* the retry of lines 436-450 on one column: the parser is run on the
\* column's normalized text and fills what is still missing
RetryColumn(cg, cell) ==
    LET Fill(t) ==
            [credit |-> IF t.credit > 0 THEN t.credit ELSE cg.credit,
             gpa |-> IF Len(t.gpa) > 0 /\ Len(cg.gpa) = 0 THEN Upper(t.gpa) ELSE cg.gpa]
    IN Fill(parse_credit_and_gpa(Str(normalize_text(Str(cell)))))

\* extracted_credit and extracted_gpa of a row (lines 425-450)
CreditAndGpa(ident, row) ==
    LET cc == ident["credit"]
        gc == ident["gpa"]
        \* lines 425-433: each column is read for its own value
        First(temp_credit, temp_gpa) ==
            [credit |-> IF cc # 0 /\ (temp_credit > 0
                                      \/ IsPassWord(normalize_text(Str(row[cc]))))
                        THEN temp_credit ELSE 0,
             gpa |-> IF gc # 0 /\ Len(temp_gpa) > 0 THEN Upper(temp_gpa) ELSE <<>>]
        \* lines 435-442: the retry on the credit column
        Second(first) ==
            IF first.credit = 0 /\ Len(first.gpa) = 0 /\ cc # 0
            THEN RetryColumn(first, row[cc]) ELSE first
        \* lines 444-450: the retry on the GPA column
        Third(first, second) ==
            IF /\ first.credit = 0 /\ Len(first.gpa) = 0
               /\ second.credit = 0 /\ Len(second.gpa) = 0
               /\ gc # 0
            THEN RetryColumn(second, row[gc]) ELSE second
        Retries(first) == Third(first, Second(first))
    IN Retries(First(IF cc # 0 THEN parse_credit_and_gpa(Str(row[cc])).credit ELSE 0,
                     IF gc # 0 THEN parse_credit_and_gpa(Str(row[gc])).gpa ELSE <<>>))

\* the test of lines 454-460 on the cell of the subject column
IsAcceptableSubject(temp_name) ==
    /\ IsSubjectLike(temp_name)
    /\ ~ContainsAny(temp_name, Range(subject_denylist))

\* the test of lines 471-475 on the cell right of the course code
IsAcceptableNextSubject(temp_name_next) ==
    /\ Len(temp_name_next) >= 2
    /\ \E i \in 1..Len(temp_name_next) : IsCJK(temp_name_next[i])
    /\ ~isdigit(temp_name_next)
    /\ ~IsGradeAF(temp_name_next)
    /\ ~IsPlainNumber(temp_name_next)
    /\ ~IsCodePattern(temp_name_next)
    /\ ~ContainsAny(RemoveSpaces(Lower(temp_name_next)), all_header_keywords_flat_lower)

\* course_name of a row (lines 452-477)
CourseName(ident, row) ==
    LET sc == ident["subject"]
        kc == ident["course_code"]
    IN IF sc # 0 /\ IsAcceptableSubject(normalize_text(Str(row[sc])))
       THEN normalize_text(Str(row[sc]))
       ELSE IF kc # 0 /\ kc < Len(row)
               /\ IsAcceptableNextSubject(normalize_text(Str(row[kc + 1])))
       THEN normalize_text(Str(row[kc + 1]))
       ELSE unknown_subject

\* s.replace('.', '', 1)
RemoveFirstDot(s) ==
    IF DotPos(s) = 0 THEN s
    ELSE SubSeq(s, 1, DotPos(s) - 1) \o From(s, DotPos(s) + 1)

\* re.sub(r'[+\-]', '', s)
RemoveModifiers(s) == SelectSeq(s, LAMBDA c : c \notin {"+", "-"})

\* mutant of is_failing_grade: the modifiers are not stripped
is_failing_grade_Exact(extracted_gpa) ==
    /\ Len(extracted_gpa) > 0
    /\ Upper(extracted_gpa) \in {Upper(failing_grades[i]) : i \in 1..Len(failing_grades)}

\* is_failing_grade (lines 479-484)
is_failing_grade(extracted_gpa) ==
    /\ Len(extracted_gpa) > 0
    /\ LET gpa_clean == Upper(RemoveModifiers(extracted_gpa)) IN
       \/ gpa_clean \in {Upper(failing_grades[i]) : i \in 1..Len(failing_grades)}
       \/ (isdigit(RemoveFirstDot(gpa_clean)) /\ float(gpa_clean) < 60 * Scale)

\* row.to_string(): one line per column, the label and the cell
RECURSIVE RowToString(_, _, _)
RowToString(df, row, c) ==
    IF c > Len(row) THEN <<>>
    ELSE df.columns[c] \o <<" ", " ", " ", " ">> \o row[c] \o <<"\n">>
         \o RowToString(df, row, c + 1)

\* is_passed_or_exempt_grade (lines 485-490)
is_passed_or_exempt_grade(df, row, extracted_gpa) ==
    \/ HasPassKeyword(Lower(extracted_gpa))
    \/ ContainsAny(Lower(normalize_text(Str(RowToString(df, row, 1)))),
                   {kw_tongguo, kw_dimian})

\* grade_to_gpa, in tenths of a grade point
grade_to_gpa ==
    <<<<<<"A", "+">>, 43>>,
       <<<<"A">>, 40>>,
       <<<<"A", "-">>, 37>>,
       <<<<"B", "+">>, 33>>,
       <<<<"B">>, 30>>,
       <<<<"B", "-">>, 27>>,
       <<<<"C", "+">>, 23>>,
       <<<<"C">>, 20>>,
       <<<<"C", "-">>, 17>>,
       <<<<"D", "+">>, 13>>,
       <<<<"D">>, 10>>,
       <<<<"D", "-">>, 7>>,
       <<<<"E">>, 0>>,
       <<<<"F">>, 0>>,
       <<<<"X">>, 0>>,
       <<<<"U4E0D", "U53CA", "U683C">>, 0>>,
       <<<<"U4E0D", "U901A", "U904E">>, 0>>>>

\* course_gpa_value (lines 513-526), in tenths of a grade point
course_gpa_value(extracted_gpa) ==
    IF \E i \in 1..Len(grade_to_gpa) : grade_to_gpa[i][1] = extracted_gpa
    THEN grade_to_gpa[CHOOSE i \in 1..Len(grade_to_gpa) : grade_to_gpa[i][1] = extracted_gpa][2]
    ELSE IF isdigit(RemoveFirstDot(extracted_gpa))
    THEN LET score == float(extracted_gpa) IN
         IF score >= 90 * Scale THEN 40
         ELSE IF score >= 80 * Scale THEN 30
         ELSE IF score >= 70 * Scale THEN 20
         ELSE IF score >= 60 * Scale THEN 10
         ELSE 0
    ELSE 0

\* mutant of CourseRecord: the record does not carry the credit
CourseRecord_ZeroCredit(ys, course_name, cg, table_no) ==
    [acad_year |-> ys.acad_year, semester |-> ys.semester, course_name |-> course_name,
     credit |-> 0, gpa |-> cg.gpa, table |-> table_no]

\* the record carries the 0-based index of the table
CourseRecord_ZeroBased(ys, course_name, cg, table_no) ==
    [acad_year |-> ys.acad_year, semester |-> ys.semester, course_name |-> course_name,
     credit |-> cg.credit, gpa |-> cg.gpa, table |-> table_no - 1]

\* the dictionary appended for a row (lines 502-509 and 530-537)
CourseRecord(ys, course_name, cg, table_no) ==
    [acad_year |-> ys.acad_year, semester |-> ys.semester, course_name |-> course_name,
     credit |-> cg.credit, gpa |-> cg.gpa, table |-> table_no]

\* mutant of RowOutcome: a pass/exempt row without credit gives no record
RowOutcome_CreditOnly(course_name, ys, cg, passed, table_no) ==
    IF /\ (course_name = unknown_subject \/ ys.acad_year = <<>> \/ ys.semester = <<>>)
       /\ cg.credit = 0 /\ Len(cg.gpa) = 0 /\ ~passed
    THEN [kind |-> "rejected"]
    ELSE IF is_failing_grade(cg.gpa)
    THEN [kind |-> "failed", record |-> CourseRecord(ys, course_name, cg, table_no)]
    ELSE IF cg.credit > 0
    THEN [kind |-> "counted", record |-> CourseRecord(ys, course_name, cg, table_no),
          credit |-> cg.credit, points |-> course_gpa_value(cg.gpa) * cg.credit]
    ELSE [kind |-> "uncounted"]

\* what becomes of a row that is no header and no noise (lines 479-540)
RowOutcome(course_name, ys, cg, passed, table_no) ==
    IF /\ (course_name = unknown_subject \/ ys.acad_year = <<>> \/ ys.semester = <<>>)
       /\ cg.credit = 0 /\ Len(cg.gpa) = 0 /\ ~passed
    THEN [kind |-> "rejected"]
    ELSE IF is_failing_grade(cg.gpa)
    THEN [kind |-> "failed", record |-> CourseRecord(ys, course_name, cg, table_no)]
    ELSE IF cg.credit > 0 \/ passed
    THEN [kind |-> "counted", record |-> CourseRecord(ys, course_name, cg, table_no),
          credit |-> cg.credit, points |-> course_gpa_value(cg.gpa) * cg.credit]
    ELSE [kind |-> "uncounted"]

\* only the rows of the first table are counted
ReadRow_FirstTableOnly(df, ident, row, table_no) ==
    LET Outcome(cg) ==
            IF table_no > 1 THEN [kind |-> "uncounted"]
            ELSE RowOutcome(CourseName(ident, row), YearAndSemester(ident, row), cg,
                            is_passed_or_exempt_grade(df, row, cg.gpa), table_no)
    IN Outcome(CreditAndGpa(ident, row))

\* the extraction of lines 390-490 for one row, and its outcome
ReadRow(df, ident, row, table_no) ==
    LET Outcome(cg) ==
            RowOutcome(CourseName(ident, row), YearAndSemester(ident, row), cg,
                       is_passed_or_exempt_grade(df, row, cg.gpa), table_no)
    IN Outcome(CreditAndGpa(ident, row))

\* The body of the loop over the rows (lines 366-540) for one row: what
\* becomes of the row, and the record it gives.
InterpretRow(df, ident, row, table_no) ==
    LET Filter(cells) ==
            IF IsHeaderRow(cells) THEN [kind |-> "header"]
            ELSE IF IsNoiseRow(cells) THEN [kind |-> "noise"]
            ELSE ReadRow(df, ident, row, table_no)
    IN Filter(RowNormalized(row))

-----------------------------------------------------------------------------
(* The specification of parse_credit_and_gpa as a function of its text. *)

NotYet == [called |-> FALSE]

\* the variables of make_unique_columns, at rest
ColumnsIdle ==
    /\ columns_list = <<>>
    /\ col_idx = 0
    /\ seen = NoneSeen
    /\ unique_columns = <<>>
    /\ made = NotYet

\* the variables of main, at rest
MainIdle ==
    /\ pdf_tables = <<>>
    /\ table_idx = 0
    /\ all_grades_data_dfs = <<>>
    /\ pdfplumber_success = FALSE
    /\ ocr_result = <<>>
    /\ extracted_dfs = <<>>
    /\ pdfplumber_extracted_successfully = FALSE
    /\ main_pc = "idle"
    /\ ocr_called = FALSE

\* the characters the argument is drawn from: a lower and an upper case
\* letter, two digits, the dot, a modifier, the space, the newline, the
\* full-width space and the two characters of the pass keyword 通過
ParseAlphabet ==
    {"a", "B", "0", "5", ".", "+", " ", "\n", "U3000", "U901A", "U904E"}

RECURSIVE TextsOfLen(_)
TextsOfLen(n) ==
    IF n = 0 THEN {<<>>}
    ELSE {Append(t, c) : t \in TextsOfLen(n - 1), c \in ParseAlphabet}

\* the variables of calculate_total_credits, at rest
CalcIdle ==
    /\ df_list = <<>>
    /\ pc = "idle"
    /\ df_idx = 0
    /\ row_idx = 0
    /\ identified_columns = NoColumns
    /\ total_credits = 0
    /\ total_gpa_points = 0
    /\ calculated_courses = <<>>
    /\ failed_courses = <<>>
    /\ last_row = [kind |-> "none"]
    /\ roles = <<>>
    /\ caught = {}
    /\ returned = NotYet

CalcVars == <<df_list, pc, df_idx, row_idx, identified_columns, total_credits,
              total_gpa_points, calculated_courses, failed_courses, last_row,
              roles, caught, returned>>

ParseInit ==
    /\ \E n \in 0..MaxTextLen : text \in TextsOfLen(n)
    /\ parsed = NotYet
    /\ ColumnsIdle
    /\ accepted = NotYet
    /\ CalcIdle
    /\ MainIdle

\* the call parse_credit_and_gpa(text)
ParseCall ==
    /\ parsed = NotYet
    /\ parsed' = [called |-> TRUE, result |-> parse_credit_and_gpa(Str(text))]
    /\ UNCHANGED MainVars
    /\ UNCHANGED <<text, ColumnVars, accepted, CalcVars>>

ParseNext == ParseCall

SpecParse == ParseInit /\ [][ParseNext]_vars

-----------------------------------------------------------------------------
(* The tables calculate_total_credits is given in this model. *)

\* most tables in a list of more than one table
MaxTables == 2

\* 學年
h_year == <<"U5B78", "U5E74">>
\* 學期
h_semester == <<"U5B78", "U671F">>
\* 科目名稱
h_subject == <<"U79D1", "U76EE", "U540D", "U7A31">>
\* 學分
h_credit == <<"U5B78", "U5206">>
h_gpa == <<"G", "P", "A">>
\* 選課代號
h_code == <<"U9078", "U8AB2", "U4EE3", "U865F">>
c_year == <<"1", "1", "1">>
c_year4 == <<"1", "1", "1", "2">>
\* 上
c_first == <<"U4E0A">>
\* 春季
c_spring == <<"U6625", "U5B63">>
c_fall == <<"F", "a", "l", "l">>
\* 微積分
c_calculus == <<"U5FAE", "U7A4D", "U5206">>
\* 物理
c_physics == <<"U7269", "U7406">>
c_code == <<"C", "S", "1", "0", "1">>
c_three == <<"3">>
c_zero == <<"0">>
c_six == <<"6">>
\* ' 3.5\n', a cell that is not normalized
c_padded == <<" ", "3", ".", "5", "\n">>
c_A == <<"A">>
c_Bminus == <<"B", "-">>
c_F == <<"F">>
c_Dplus == <<"D", "+">>
\* 通過
c_passed == <<"U901A", "U904E">>
\* 抵免
c_exempt == <<"U62B5", "U514D">>
\* 學號
c_student_id == <<"U5B78", "U865F">>
c_3A == <<"3", " ", "A">>
c_3F == <<"3", " ", "F">>
c_F3 == <<"F", " ", "3">>
c_one == <<"1">>

\* Column_<n>, the label pdfplumber tables get without a header row
Column(n) == <<"C", "o", "l", "u", "m", "n", "_", Digits[n + 1]>>

\* A layout is a sequence of columns: the label and the cells the column
\* holds in a regular row.
Col(label, regular) == [label |-> label, regular |-> regular]

Layouts ==
    { \* the five keyword headers
      << Col(h_year, {c_year}), Col(h_semester, {c_first}), Col(h_subject, {c_calculus}),
         Col(h_credit, {c_three}), Col(h_gpa, {c_A, c_F}) >>,
      \* no header keywords, credit and grade in one cell
      << Col(Column(1), {c_year}), Col(Column(2), {c_first}), Col(Column(3), {c_calculus}),
         Col(Column(4), {c_3A, c_3F}) >>,
      \* no semester keyword in the header
      << Col(h_year, {c_year}), Col(Column(2), {c_first}), Col(h_subject, {c_calculus}),
         Col(h_credit, {c_three}), Col(h_gpa, {c_A}) >>,
      \* with a course code
      << Col(h_year, {c_year}), Col(h_semester, {c_first}), Col(h_code, {c_code}),
         Col(h_subject, {c_calculus}), Col(h_credit, {c_three}), Col(h_gpa, {c_A}) >>,
      \* seven columns, the first of them without a label and empty
      << Col(Column(1), {<<>>}), Col(h_year, {c_year}), Col(h_semester, {c_first}),
         Col(h_code, {c_code}), Col(h_subject, {c_calculus}), Col(h_credit, {c_three}),
         Col(h_gpa, {c_F}) >>,
      \* no subject column
      << Col(h_year, {c_year}), Col(h_semester, {c_first}), Col(h_credit, {c_three}) >>,
      \* two columns
      << Col(h_subject, {c_calculus}), Col(h_credit, {c_three}) >> }

\* the cells an irregular row may hold in any column
OddCells ==
    {<<>>, c_year4, c_spring, c_fall, c_one, c_physics, c_zero, c_six, c_padded,
     c_Bminus, c_Dplus, c_passed, c_exempt, c_student_id, h_credit, c_F3}

Labels(layout) == [c \in 1..Len(layout) |-> layout[c].label]

\* the regular rows of the first c columns of a layout
RECURSIVE RegularRowsUpTo(_, _)
RegularRowsUpTo(layout, c) ==
    IF c = 0 THEN {<<>>}
    ELSE {Append(row, cell) : row \in RegularRowsUpTo(layout, c - 1),
                              cell \in layout[c].regular}

\* the regular rows of a layout
RegularRows(layout) == RegularRowsUpTo(layout, Len(layout))

\* the header text above a column: the label, or nothing where the label is
\* a generated Column_<n>
HeaderText(label) == IF label \in {Column(n) : n \in 1..9} THEN <<>> ELSE label

\* a regular row with one cell replaced, with its first k cells replaced by
\* the header texts above them, or with its cells from k on emptied
IrregularRows(layout) ==
    UNION {   {[row EXCEPT ![c] = odd] : c \in 1..Len(layout), odd \in OddCells}
         \cup {[c \in 1..Len(layout) |-> IF c <= k THEN HeaderText(layout[c].label) ELSE row[c]] :
                  k \in 1..Len(layout)}
         \cup {[c \in 1..Len(layout) |-> IF c >= k THEN <<>> ELSE row[c]] :
                  k \in 1..Len(layout)}
        : row \in RegularRows(layout)} \ RegularRows(layout)

\* the sequences of n rows drawn from a set of rows
RECURSIVE SeqsOf(_, _)
SeqsOf(rows, n) ==
    IF n = 0 THEN {<<>>}
    ELSE {Append(seq, row) : seq \in SeqsOf(rows, n - 1), row \in rows}

\* the sequences of n rows of a layout with at most one irregular row
RowSeqs(layout, n) ==
    LET regular == SeqsOf(RegularRows(layout), n)
        odd == IrregularRows(layout)
    IN regular \cup {[seq EXCEPT ![k] = row] : seq \in regular, k \in 1..n, row \in odd}

\* the tables of n rows of a layout
TablesOf(layout, n) ==
    {[columns |-> Labels(layout), rows |-> rows] : rows \in RowSeqs(layout, n)}

\* the tables of the lists of several tables: regular rows only, one row
PairTables ==
    UNION {{[columns |-> Labels(layout), rows |-> <<row>>] : row \in RegularRows(layout)}
              : layout \in Layouts}

RECURSIVE ListsOfLen(_)
ListsOfLen(n) ==
    IF n = 0 THEN {<<>>}
    ELSE {Append(l, t) : l \in ListsOfLen(n - 1), t \in PairTables}

\* df_list is one table of a layout, or a list of up to MaxTables tables
IsTableList(list) ==
    \/ \E layout \in Layouts, n \in 0..MaxRows : \E t \in TablesOf(layout, n) : list = <<t>>
    \/ \E n \in 0..MaxTables : list \in ListsOfLen(n)

-----------------------------------------------------------------------------
(* calculate_total_credits *)

\* the variables of parse_credit_and_gpa, at rest
ParseIdle == text = <<>> /\ parsed = NotYet

Init ==
    /\ IsTableList(df_list)
    /\ pc = "entry"
    /\ df_idx = 1
    /\ row_idx = 0
    /\ identified_columns = NoColumns
    /\ total_credits = 0
    /\ total_gpa_points = 0
    /\ calculated_courses = <<>>
    /\ failed_courses = <<>>
    /\ last_row = [kind |-> "none"]
    /\ roles = <<>>
    /\ caught = {}
    /\ returned = NotYet
    /\ ParseIdle
    /\ ColumnsIdle
    /\ accepted = NotYet
    /\ MainIdle

df == df_list[df_idx]

\* the loop over the tables is at a table
AtTable == pc \in {"entry", "table"} /\ df_idx <= Len(df_list)

\* lines 253-254: no tables
ReturnEmpty ==
    /\ pc = "entry"
    /\ df_list = <<>>
    /\ pc' = "done"
    /\ returned' = [called |-> TRUE,
                    result |-> <<total_credits, calculated_courses, failed_courses>>]
    /\ UNCHANGED MainVars
    /\ UNCHANGED <<text, parsed, ColumnVars, accepted, df_list, df_idx, row_idx,
                   identified_columns, total_credits, total_gpa_points,
                   calculated_courses, failed_courses, last_row, roles, caught>>

\* lines 257-259: an empty table or one of fewer than three columns
SkipTable ==
    /\ AtTable
    /\ IsEmptyTable(df) \/ NumCols(df) < 3
    /\ pc' = "table"
    /\ df_idx' = df_idx + 1
    /\ roles' = Append(roles, NoColumns)
    /\ UNCHANGED MainVars
    /\ UNCHANGED <<text, parsed, ColumnVars, accepted, df_list, row_idx,
                   identified_columns, total_credits, total_gpa_points,
                   calculated_courses, failed_courses, last_row, caught, returned>>

\* lines 261-364 and 545-546: the roles are assigned; the rows are read next
\* when the required roles are found, and the table is passed over otherwise
ClassifyTable ==
    /\ AtTable
    /\ ~(IsEmptyTable(df) \/ NumCols(df) < 3)
    /\ \E ident \in {AssignRoles(df)} :
       /\ identified_columns' = ident
       /\ roles' = Append(roles, ident)
       /\ IF HasRequiredColumns(ident)
          THEN pc' = "rows" /\ row_idx' = 1 /\ UNCHANGED df_idx
          ELSE pc' = "table" /\ df_idx' = df_idx + 1 /\ UNCHANGED row_idx
    /\ UNCHANGED MainVars
    /\ UNCHANGED <<text, parsed, ColumnVars, accepted, df_list, total_credits,
                   total_gpa_points, calculated_courses, failed_courses, last_row,
                   caught, returned>>

\* the try of line 365 and the handler of lines 543-544: a statement of the
\* loop body raises before the row at row_idx has changed a total or a list
\* (the cell accesses and the st.info calls of lines 367-499); the handler
\* reports the table, and the loop over the tables goes on
RowRaises ==
    /\ pc = "rows"
    /\ caught' = caught \cup {df_idx}
    /\ row_idx' = 0
    /\ pc' = "table"
    /\ df_idx' = df_idx + 1
    /\ UNCHANGED MainVars
    /\ UNCHANGED <<text, parsed, ColumnVars, accepted, df_list, identified_columns,
                   total_credits, total_gpa_points, calculated_courses,
                   failed_courses, last_row, roles, returned>>

\* lines 366-540: one row of the table; the report of the row's outcome
\* (lines 510, 538, 540) may raise after the row's record is appended
ProcessRow ==
    /\ pc = "rows"
    /\ \E r \in {InterpretRow(df, identified_columns, df.rows[row_idx], df_idx)} :
       /\ failed_courses' =
              IF r.kind = "failed" THEN Append(failed_courses, r.record) ELSE failed_courses
       /\ calculated_courses' =
              IF r.kind = "counted" THEN Append(calculated_courses, r.record)
              ELSE calculated_courses
       /\ total_credits' =
              IF r.kind = "counted" THEN total_credits + r.credit ELSE total_credits
       /\ total_gpa_points' =
              IF r.kind = "counted"
              THEN total_gpa_points + r.points
              ELSE total_gpa_points
       /\ last_row' = [kind |-> r.kind, table |-> df_idx, row |-> row_idx,
                       ident |-> identified_columns,
                       total_credits |-> total_credits,
                       total_gpa_points |-> total_gpa_points,
                       counted |-> Len(calculated_courses),
                       failed |-> Len(failed_courses)]
    /\ \E raised \in BOOLEAN :
       /\ caught' = IF raised THEN caught \cup {df_idx} ELSE caught
       /\ IF ~raised /\ row_idx < Len(df.rows)
          THEN row_idx' = row_idx + 1 /\ UNCHANGED <<pc, df_idx>>
          ELSE row_idx' = 0 /\ pc' = "table" /\ df_idx' = df_idx + 1
    /\ UNCHANGED MainVars
    /\ UNCHANGED <<text, parsed, ColumnVars, accepted, df_list, identified_columns,
                   roles, returned>>

\* line 548
Return ==
    /\ pc = "table"
    /\ df_idx > Len(df_list)
    /\ pc' = "done"
    /\ returned' = [called |-> TRUE,
                    result |-> <<total_credits, total_gpa_points, calculated_courses,
                                 failed_courses>>]
    /\ UNCHANGED MainVars
    /\ UNCHANGED <<text, parsed, ColumnVars, accepted, df_list, df_idx, row_idx,
                   identified_columns, total_credits, total_gpa_points,
                   calculated_courses, failed_courses, last_row, roles, caught>>

Next ==
    \/ ReturnEmpty
    \/ SkipTable
    \/ ClassifyTable
    \/ ProcessRow
    \/ RowRaises
    \/ Return

Spec == Init /\ [][Next]_vars

-----------------------------------------------------------------------------
(* The specification of make_unique_columns as a function of its labels. *)

l_xuefen == <<"U5B78", "U5206">>
l_column_1 == <<"C", "o", "l", "u", "m", "n", "_", "1">>
l_column_2 == <<"C", "o", "l", "u", "m", "n", "_", "2">>

\* the raw labels: an absent one, blank ones, a one-character one, 學分 as a
\* string, padded and as a text object, a text object with runs of white
\* space, names that look generated, and a number
RawLabels ==
    {None, Str(<<>>), Str(<<" ", "\n">>), Str(<<"A">>), Str(l_xuefen),
     Str(<<" ">> \o l_xuefen \o <<"\n">>), TextObj(l_xuefen),
     TextObj(<<"U3000", "A", "\n", " ", "B", "\n">>),
     Str(l_xuefen \o <<"_", "1">>), Str(l_column_1), Str(l_column_2),
     Other(<<"1", "2">>)}

RECURSIVE LabelsOfLen(_)
LabelsOfLen(n) ==
    IF n = 0 THEN {<<>>}
    ELSE {Append(l, c) : l \in LabelsOfLen(n - 1), c \in RawLabels}

ColumnsInit ==
    /\ \E n \in 0..MaxLabels : columns_list \in LabelsOfLen(n)
    /\ col_idx = 1
    /\ seen = NoneSeen
    /\ unique_columns = <<>>
    /\ made = NotYet
    /\ ParseIdle
    /\ accepted = NotYet
    /\ CalcIdle
    /\ MainIdle

\* one turn of the loop over columns_list
NameColumn ==
    /\ made = NotYet
    /\ col_idx \in 1..Len(columns_list)
    /\ \E name \in {ColumnName(columns_list[col_idx], unique_columns)} :
       \E f \in {FinalName(name, name, SeenCount(seen, name), unique_columns)} :
          /\ unique_columns' = Append(unique_columns, f.final_name)
          /\ seen' = SeenWith(seen, name, f.counter)
    /\ col_idx' = col_idx + 1
    /\ UNCHANGED MainVars
    /\ UNCHANGED <<columns_list, made, text, parsed, accepted, CalcVars>>

\* return unique_columns
ReturnColumns ==
    /\ made = NotYet
    /\ col_idx = Len(columns_list) + 1
    /\ made' = [called |-> TRUE, result |-> unique_columns]
    /\ UNCHANGED MainVars
    /\ UNCHANGED <<columns_list, col_idx, seen, unique_columns, text, parsed,
                   accepted, CalcVars>>

ColumnsNext == NameColumn \/ ReturnColumns

SpecColumns == ColumnsInit /\ [][ColumnsNext]_vars

-----------------------------------------------------------------------------
(* The specification of is_grades_table as a function of its table. *)

\* the table is_grades_table is given
GradesInit ==
    /\ \E layout \in Layouts, n \in 0..MaxRows :
          \E t \in TablesOf(layout, n) : df_list = <<t>>
    /\ accepted = NotYet
    /\ pc = "idle"
    /\ df_idx = 1
    /\ row_idx = 0
    /\ identified_columns = NoColumns
    /\ total_credits = 0
    /\ total_gpa_points = 0
    /\ calculated_courses = <<>>
    /\ failed_courses = <<>>
    /\ last_row = [kind |-> "none"]
    /\ roles = <<>>
    /\ caught = {}
    /\ returned = NotYet
    /\ ParseIdle
    /\ ColumnsIdle
    /\ MainIdle

\* the call is_grades_table(df)
GradesCall ==
    /\ accepted = NotYet
    /\ accepted' = [called |-> TRUE, result |-> is_grades_table(df)]
    /\ UNCHANGED MainVars
    /\ UNCHANGED <<text, parsed, ColumnVars, CalcVars>>

GradesNext == GradesCall

SpecGrades == GradesInit /\ [][GradesNext]_vars

-----------------------------------------------------------------------------
(* The specification of calculate_total_credits on one table: a row under  *)
(* the keyword headers with a credit, a grade and a remark of many kinds,  *)
(* or a table whose columns compete for the roles.                         *)

\* 不及格
c_bujige == <<"U4E0D", "U53CA", "U683C">>
\* 不通過
c_butongguo == <<"U4E0D", "U901A", "U904E">>
\* 未通過
c_weitongguo == <<"U672A", "U901A", "U904E">>
c_fail == <<"f", "a", "i", "l">>
c_Failed == <<"F", "a", "i", "l", "e", "d">>
c_55 == <<"5", "5">>
c_59_5 == <<"5", "9", ".", "5">>
c_85 == <<"8", "5">>
c_pass == <<"p", "a", "s", "s">>
c_Exempt == <<"E", "x", "e", "m", "p", "t">>

\* the cells of the credit column
CreditCells == {<<>>, c_three, c_pass, c_passed}

\* the cells of the GPA column
GradeCells ==
    {<<>>, c_A, c_F, c_Dplus, c_55, c_59_5, c_85, c_bujige, c_butongguo,
     c_weitongguo, c_fail, c_Failed, c_pass, c_Exempt, c_passed}

\* the cells of a column without a role
RemarkCells == {<<>>, c_pass, c_exempt}

\* the five keyword headers and a column without a keyword
RowColumns == <<h_year, h_semester, h_subject, h_credit, h_gpa, Column(6)>>

\* the tables of one row
RowTables ==
    {[columns |-> RowColumns,
      rows |-> << <<c_year, c_first, c_calculus, credit, grade, remark>> >>] :
        credit \in CreditCells, grade \in GradeCells, remark \in RemarkCells}

\* the labels of the tables whose columns compete: generated ones, and
\* keyword headers above the third and the fourth column
TieLabels ==
    {<<Column(1), Column(2), Column(3), Column(4)>>,
     <<Column(1), Column(2), h_subject, Column(4)>>,
     <<Column(1), Column(2), Column(3), h_gpa>>,
     <<Column(1), Column(2), h_credit, h_gpa>>}

\* their rows: cells that match the pattern of one role or of two, so that
\* columns have equal scores for a role
TieRows ==
    {<<a, b, c, d>> : a \in {c_year, c_one, c_calculus},
                      b \in {c_first, c_one, c_physics, c_three},
                      c \in {c_calculus, c_physics, c_three, c_A},
                      d \in {c_three, c_A, c_physics, c_one}}

\* the tables whose columns compete: one row, or that row and a regular row
\* under generated labels, which gives scores of one half
TieTables ==
    {[columns |-> labels, rows |-> <<row>>] : labels \in TieLabels, row \in TieRows}
    \cup {[columns |-> <<Column(1), Column(2), Column(3), Column(4)>>,
           rows |-> <<row, <<c_year, c_first, c_calculus, c_three>> >>] :
              row \in TieRows}

\* df_list is no table, a table without rows, a table of one row under the
\* keyword headers, or a table whose columns compete
RowsInit ==
    /\ df_list \in {<<>>, <<[columns |-> RowColumns, rows |-> <<>>]>>}
                       \cup {<<t>> : t \in RowTables \cup TieTables}
    /\ pc = "entry"
    /\ df_idx = 1
    /\ row_idx = 0
    /\ identified_columns = NoColumns
    /\ total_credits = 0
    /\ total_gpa_points = 0
    /\ calculated_courses = <<>>
    /\ failed_courses = <<>>
    /\ last_row = [kind |-> "none"]
    /\ roles = <<>>
    /\ caught = {}
    /\ returned = NotYet
    /\ ParseIdle
    /\ ColumnsIdle
    /\ accepted = NotYet
    /\ MainIdle

SpecRows == RowsInit /\ [][Next]_vars

-----------------------------------------------------------------------------
(* Properties of parse_credit_and_gpa (SpecParse). *)

\* a text that is a number: digits, or digits '.' digits
IsNumberText(s) ==
    \/ isdigit(s)
    \/ \E d \in 2..(Len(s) - 1) :
          s[d] = "." /\ isdigit(SubSeq(s, 1, d - 1)) /\ isdigit(From(s, d + 1))

\* a text that is a letter grade: one letter, then at most one of + and -
IsGradeText(s) ==
    /\ Len(s) \in {1, 2}
    /\ IsLower(s[1]) \/ IsUpper(s[1])
    /\ Len(s) = 2 => s[2] \in {"+", "-"}

IsSpacesText(s) == \A i \in 1..Len(s) : s[i] = " "

\* s is s[1..g] s[g+1..k] s[k+1..]: a first part, spaces, a last part
SplitParts(s, g, k) ==
    [first |-> SubSeq(s, 1, g), spaces |-> SubSeq(s, g + 1, k), last |-> From(s, k + 1)]

Splits(s) == UNION {{SplitParts(s, g, k) : k \in g..Len(s)} : g \in 1..Len(s)}

\* the normalized argument
NormalizedText == normalize_text(Str(text))

\* C8: a normalized text "grade spaces number" or "number spaces grade" with
\* the number in [0, 5] and no pass/exempt keyword is parsed as that number
\* and that grade in upper case.
C8_BothOrders ==
    parsed.called =>
        \A p \in Splits(NormalizedText) :
            /\ IsSpacesText(p.spaces)
            /\ ~HasPassKeyword(Lower(NormalizedText))
            => /\ ( /\ IsGradeText(p.first)
                    /\ IsNumberText(p.last)
                    /\ float(p.last) <= 5 * Scale )
                  => parsed.result = [credit |-> float(p.last), gpa |-> Upper(p.first)]
               /\ ( /\ IsNumberText(p.first)
                    /\ IsGradeText(p.last)
                    /\ float(p.first) <= 5 * Scale )
                  => parsed.result = [credit |-> float(p.first), gpa |-> Upper(p.last)]

\* C8 witness: "B+ 5" was parsed as (5.0, "B+") and "0.5a" as (0.5, "A").
C8_Witness ==
    /\ parsed.called
    /\ \/ /\ text = <<"B", "+", " ", "5">>
          /\ parsed.result = [credit |-> 5 * Scale, gpa |-> <<"B", "+">>]
       \/ /\ text = <<"0", ".", "5", "a">>
          /\ parsed.result.gpa = <<"A">>

\* C9 (as claimed): a text with a pass/exempt keyword is parsed as credit 0.0
\* and, as grade, the output of normalize_text for that text.
C9_ReturnsNormalizedText ==
    parsed.called /\ HasPassKeyword(Lower(NormalizedText))
        => parsed.result = [credit |-> 0, gpa |-> NormalizedText]

\* C10: the credit parse_credit_and_gpa returns lies in [0.0, 5.0].
C10_CreditInRange ==
    parsed.called => 0 <= parsed.result.credit /\ parsed.result.credit <= 5 * Scale

\* C10 witness: the text holds a number above 5 (as its first number, and
\* another one within range after it) and the call returned credit 0.
C10_Witness ==
    /\ parsed.called
    /\ text = <<"5", "5", " ", "5">>
    /\ parsed.result.credit = 0

\* the white space the text of a cell is padded with: the ASCII space, the
\* newline and the full-width space
PadChars == {" ", "\n", "U3000"}

IsPadding(s) == \A i \in 1..Len(s) : s[i] \in PadChars

\* the texts t of which text is a padded form: text is leading white space,
\* t, trailing white space
Unpadded ==
    {SubSeq(text, b[1], b[2]) :
        b \in {c \in (1..(Len(text) + 1)) \X (0..Len(text)) :
                  /\ c[1] <= c[2] + 1
                  /\ IsPadding(SubSeq(text, 1, c[1] - 1))
                  /\ IsPadding(From(text, c[2] + 1))}}

\* text with the full-width spaces at the positions S as ASCII spaces
WithAsciiSpaces(S) == [i \in 1..Len(text) |-> IF i \in S THEN " " ELSE text[i]]

\* the texts t of which text is t with ASCII spaces replaced by full-width
\* spaces
Respaced ==
    {WithAsciiSpaces(S) : S \in SUBSET {i \in 1..Len(text) : text[i] = "U3000"}}

\* C11: parse_credit_and_gpa returns the same pair for a text t, for t with
\* leading and trailing spaces, newlines and full-width spaces, and for t
\* with ASCII spaces replaced by full-width spaces.
C11_WhiteSpaceInvariant ==
    parsed.called =>
        \A t \in Unpadded \cup Respaced :
            parse_credit_and_gpa(Str(t)) = parsed.result

\* C11 witness: a newline, "B", a full-width space, "5" was parsed as
\* (5.0, "B"), as are "B　5" without the newline and "B 5".
C11_Witness ==
    /\ parsed.called
    /\ text = <<"\n", "B", "U3000", "5">>
    /\ <<"B", "U3000", "5">> \in Unpadded
    /\ <<"\n", "B", " ", "5">> \in Respaced
    /\ parsed.result = [credit |-> 5 * Scale, gpa |-> <<"B">>]

-----------------------------------------------------------------------------
(* Properties of calculate_total_credits (Spec). *)

\* a row has been processed
RowProcessed == last_row.kind # "none"

\* the table of the last processed row, and the row
LastTable == df_list[last_row.table]
LastRow == LastTable.rows[last_row.row]

\* the normalized cell of the last processed row in the column of a role
LastCell(role) == normalize_text(Str(LastRow[last_row.ident[role]]))

\* the last processed row passed the header and the noise filter
IsDataRow ==
    /\ RowProcessed
    /\ ~IsHeaderRow(RowNormalized(LastRow))
    /\ ~IsNoiseRow(RowNormalized(LastRow))

\* the records the last processed row appended to each list
NewCounted == Len(calculated_courses) - last_row.counted
NewFailed == Len(failed_courses) - last_row.failed

\* the last record of the counted list
LastCounted == calculated_courses[Len(calculated_courses)]

\* the column of a role was found, and its label holds a keyword of the role
IdentifiedByHeader(role) ==
    /\ last_row.ident[role] # 0
    /\ HeaderHas(LastTable.columns[last_row.ident[role]], RoleKeywords(role))

\* s is a number in (0, 5]
IsCreditNumber(s) == IsPlainNumber(s) /\ float(s) > 0 /\ float(s) <= MaxCredit

\* s is a letter grade with an optional modifier
IsLetterGrade(s) ==
    /\ Len(s) \in {1, 2}
    /\ IsUpper(s[1]) \/ IsLower(s[1])
    /\ Len(s) = 2 => s[2] \in {"+", "-"}

\* the letter of a letter grade is in the failing-grade set
IsFailingLetter(s) == UpperChar(s[1]) \in {"D", "E", "F", "X"}

\* the case of C1: five columns found by header keywords, and a data row
\* with a year, a semester token, a subject, a credit and a passing grade
C1_Case ==
    /\ IsDataRow
    /\ \A role \in {"year", "semester", "subject", "credit", "gpa"} :
           IdentifiedByHeader(role)
    /\ IsYearLike(LastCell("year"))
    /\ IsSemesterLike(LastCell("semester"))
    /\ IsAcceptableSubject(LastCell("subject"))
    /\ IsCreditNumber(LastCell("credit"))
    /\ IsLetterGrade(LastCell("gpa")) /\ ~IsFailingLetter(LastCell("gpa"))

\* C1: a data row of a table whose five columns are found by header
\* keywords, holding a year, a semester token, an acceptable subject, a
\* credit in (0, 5] and a non-failing letter grade, gives exactly one
\* counted record with those five values, nothing in the failed list, and
\* adds its credit to the total credits.
C1_CountedWithFiveValues ==
    C1_Case =>
        /\ NewCounted = 1
        /\ NewFailed = 0
        /\ LastCounted.acad_year = LastCell("year")
        /\ LastCounted.semester = LastCell("semester")
        /\ LastCounted.course_name = LastCell("subject")
        /\ LastCounted.credit = float(LastCell("credit"))
        /\ LastCounted.gpa = Upper(LastCell("gpa"))
        /\ total_credits = last_row.total_credits + float(LastCell("credit"))

\* the case of C2: a data row with a failing letter grade in the GPA column
\* and a number in (0, 5] in the credit column
C2_Case ==
    /\ IsDataRow
    /\ last_row.ident["credit"] # 0
    /\ last_row.ident["gpa"] # 0
    /\ IsLetterGrade(LastCell("gpa")) /\ IsFailingLetter(LastCell("gpa"))
    /\ IsCreditNumber(LastCell("credit"))

\* C2: a data row whose GPA cell is a letter grade that is failing once its
\* modifier is stripped, and whose credit cell is a number in (0, 5], is
\* appended to the failed list only and its credit is not added to the
\* total credits.
C2_FailingOnlyFailed ==
    C2_Case =>
        /\ NewFailed = 1
        /\ NewCounted = 0
        /\ failed_courses[Len(failed_courses)].credit = float(LastCell("credit"))
        /\ total_credits = last_row.total_credits
        /\ total_gpa_points = last_row.total_gpa_points

\* a failing grade with a modifier was put on the failed list
C2_Witness == C2_Case /\ Len(LastCell("gpa")) = 2 /\ NewFailed = 1

\* the sum of the credit fields of a list of records
RECURSIVE SumCredits(_)
SumCredits(courses) ==
    IF courses = <<>> THEN 0
    ELSE courses[1].credit + SumCredits(Tail(courses))

\* the sum of credit times grade-point value over a list of records
RECURSIVE SumPoints(_)
SumPoints(courses) ==
    IF courses = <<>> THEN 0
    ELSE courses[1].credit * course_gpa_value(courses[1].gpa) + SumPoints(Tail(courses))

\* C3: after every row and at return, the total credits are the sum of the
\* credits of the counted records and the total grade points the sum of
\* their credit times grade-point value; the failed records are in neither.
C3_TotalsAreSums ==
    /\ total_credits = SumCredits(calculated_courses)
    /\ total_gpa_points = SumPoints(calculated_courses)
    /\ returned.called => returned.result[1] = SumCredits(calculated_courses)
    /\ (returned.called /\ Len(returned.result) = 4) =>
           returned.result[2] = SumPoints(calculated_courses)

\* the function returned after counting a graded course and failing another
C3_Witness ==
    /\ returned.called
    /\ Len(calculated_courses) >= 1
    /\ Len(failed_courses) >= 1
    /\ total_credits > 0
    /\ total_gpa_points > 0

\* C4: the role assignment gives no column to two roles (and, being a map
\* from roles to columns, no role to two columns).
C4_OneRolePerColumn ==
    \A r1, r2 \in HeaderRoleSet :
        (r1 # r2 /\ identified_columns[r1] # 0) =>
            identified_columns[r1] # identified_columns[r2]

\* the roles of a table were assigned, and some column of it was a
\* candidate for two roles of which it got one
C4_Witness ==
    /\ pc = "rows"
    /\ \E x, y \in Candidates(df) :
           /\ x.col = y.col
           /\ x.role # y.role
           /\ x.role \in HeaderRoleSet
           /\ identified_columns[x.role] = x.col

\* the content of the last processed row that decides its outcome
LastCreditAndGpa == CreditAndGpa(last_row.ident, LastRow)
LastPassed == is_passed_or_exempt_grade(LastTable, LastRow, LastCreditAndGpa.gpa)
LastFailing == is_failing_grade(LastCreditAndGpa.gpa)

\* C5 (amended): every row ends in exactly one of five outcomes: skipped as
\* header or noise, rejected, appended once to the counted list, appended
\* once to the failed list, or left out without a record; the last happens
\* only to a row that is not failing, has no credit and is not passed or
\* exempt, and a row that is not skipped and not rejected and is failing,
\* has a credit or is passed or exempt gives exactly one record.
C5_FiveOutcomes ==
    RowProcessed =>
        /\ last_row.kind \in {"header", "noise", "rejected", "counted", "failed", "uncounted"}
        /\ last_row.kind = "counted" <=> (NewCounted = 1 /\ NewFailed = 0)
        /\ last_row.kind = "failed" <=> (NewCounted = 0 /\ NewFailed = 1)
        /\ last_row.kind \notin {"counted", "failed"} <=> (NewCounted = 0 /\ NewFailed = 0)
        /\ last_row.kind = "uncounted" =>
               (~LastFailing /\ LastCreditAndGpa.credit = 0 /\ ~LastPassed)
        /\ (/\ last_row.kind \notin {"header", "noise", "rejected"}
            /\ (LastFailing \/ LastCreditAndGpa.credit > 0 \/ LastPassed)) =>
               NewCounted + NewFailed = 1

\* a row that is passed or exempt and has no credit was counted, and so was
\* the fifth outcome reached
C5_Witness ==
    /\ RowProcessed
    /\ last_row.kind = "counted"
    /\ LastCreditAndGpa.credit = 0
    /\ LastPassed

\* C5: every row ends in one of four outcomes; a row that is not skipped and
\* not rejected gives exactly one record.
C5_FourOutcomes ==
    (RowProcessed /\ last_row.kind \notin {"header", "noise", "rejected"}) =>
        NewCounted + NewFailed = 1

\* no header of the table holds a semester keyword and no column's sampled
\* cells match the semester tokens at the ratio of is_grades_table
NoSemesterEvidence(t) ==
    /\ ~HasColHeader(t, semester_keys)
    /\ ~FoundByContent(t, "semester", 6, 10)

\* C6: for a table without a semester keyword in its headers and without a
\* column matching the semester tokens at the required ratio,
\* is_grades_table is false and no record of the table is appended.
C6_NoSemesterNoRecord ==
    \A i \in 1..Len(df_list) :
        NoSemesterEvidence(df_list[i]) =>
            /\ ~is_grades_table(df_list[i])
            /\ \A k \in 1..Len(calculated_courses) : calculated_courses[k].table # i
            /\ \A k \in 1..Len(failed_courses) : failed_courses[k].table # i

\* the case of C7: at least three cells of the row are header keywords, and
\* they are half of the row or the first cell is empty
C7_Case ==
    /\ RowProcessed
    /\ header_keyword_matches(RowNormalized(LastRow)) >= 3
    /\ \/ 2 * header_keyword_matches(RowNormalized(LastRow)) >= Len(LastRow)
       \/ RowNormalized(LastRow)[1] = <<>>

\* C7: a row with at least three header keyword cells that are half of the
\* row, or with them and an empty first cell, gives no record and changes
\* no total.
C7_HeaderRowNoRecord ==
    C7_Case =>
        /\ NewCounted = 0
        /\ NewFailed = 0
        /\ total_credits = last_row.total_credits
        /\ total_gpa_points = last_row.total_gpa_points

\* a row of three keyword cells, fewer than half, after an empty first cell
\* was processed
C7_Witness ==
    /\ C7_Case
    /\ 2 * header_keyword_matches(RowNormalized(LastRow)) < Len(LastRow)


-----------------------------------------------------------------------------
(* Properties of make_unique_columns and normalize_text (SpecColumns). *)

NoDuplicates(names) ==
    \A i \in 1..Len(names) : \A j \in 1..Len(names) :
        names[i] = names[j] => i = j

IsPrefix(p, s) == Len(p) <= Len(s) /\ SubSeq(s, 1, Len(p)) = p

\* a name made from a label: the normalized label, or Column_ when that is
\* shorter than two characters, with or without a suffix
MadeFrom(name, col) ==
    IF Len(normalize_text(col)) < 2
    THEN IsPrefix(name_base \o <<"_">>, name)
    ELSE IsPrefix(normalize_text(col), name)

\* C12: make_unique_columns returns a list as long as the list of labels,
\* entry by entry made from the label at the same position, and without
\* duplicate strings.
C12_UniqueSameLength ==
    /\ NoDuplicates(unique_columns)
    /\ made.called =>
          /\ Len(made.result) = Len(columns_list)
          /\ NoDuplicates(made.result)
          /\ \A i \in 1..Len(columns_list) :
                MadeFrom(made.result[i], columns_list[i])

\* C12 witness: a list with an absent label, the label Column_1 and two
\* labels with the same normalized text has been renamed.
C12_Witness ==
    /\ made.called
    /\ None \in Range(columns_list)
    /\ Str(l_column_1) \in Range(columns_list)
    /\ \E i \in 1..Len(columns_list) : \E j \in 1..Len(columns_list) :
          /\ i < j
          /\ normalize_text(columns_list[i]) = normalize_text(columns_list[j])
          /\ made.result[j] # normalize_text(columns_list[j])

\* the labels make_unique_columns has normalized so far
NormalizedLabels == {columns_list[i] : i \in 1..(col_idx - 1)}

\* C13: normalize_text is idempotent: for an absent value, a text object, a
\* string and a value of another type, normalizing the normalized text gives
\* that text again.
C13_Idempotent ==
    \A x \in NormalizedLabels :
        normalize_text(Str(normalize_text(x))) = normalize_text(x)

\* C13 witness: an absent label, a text object and a string that
\* normalization changes have been normalized.
C13_Witness ==
    /\ None \in NormalizedLabels
    /\ \E x \in NormalizedLabels : x.kind = "obj" /\ normalize_text(x) # x.val
    /\ \E x \in NormalizedLabels : x.kind = "str" /\ normalize_text(x) # x.val

-----------------------------------------------------------------------------
(* Properties of is_grades_table (SpecGrades). *)

\* the header shortcut of line 178 applies
HeaderShortcut ==
    /\ HasColHeader(df, subject_keys)
    /\ HasColHeader(df, credit_keys) \/ HasColHeader(df, gpa_keys)
    /\ HasColHeader(df, year_keys)
    /\ HasColHeader(df, semester_keys)

\* a cell with a non-trivial parse result: a credit above 0, a letter grade
\* or a pass/exempt phrase
IsNonTrivial(s) ==
    LET NonTrivial(r) == r.credit > 0 \/ Len(r.gpa) > 0
    IN NonTrivial(parse_credit_and_gpa(Str(s)))

\* some column has at least 0.4 of its sampled cells non-trivial
NonTrivialEvidence ==
    \E c \in 1..NumCols(df) :
        /\ SampleCount(df) > 0
        /\ 10 * Cardinality({i \in 1..SampleCount(df) :
                                IsNonTrivial(SampleData(df, c)[i])})
              >= 4 * SampleCount(df)

\* every cell of the table parses to (0.0, "")
EveryCellTrivial ==
    \A r \in 1..Len(df.rows) : \A c \in 1..NumCols(df) :
        ~IsNonTrivial(normalize_text(Str(df.rows[r][c])))

\* C14 (as claimed): without the header shortcut, is_grades_table accepts a
\* table only with content evidence for Year, Semester, Subject and
\* Credit/GPA, the last being a column with at least 0.4 of its sampled
\* cells non-trivial; a table whose every cell parses to (0.0, "") is
\* rejected.
C14_AcceptsOnlyWithEvidence ==
    (accepted.called /\ ~HeaderShortcut) =>
        /\ accepted.result =>
              /\ FoundByContent(df, "year", 6, 10)
              /\ FoundByContent(df, "semester", 6, 10)
              /\ FoundByContent(df, "subject", 4, 10)
              /\ NonTrivialEvidence
        /\ EveryCellTrivial => ~accepted.result

-----------------------------------------------------------------------------
(* Properties of calculate_total_credits as a function of its list (Spec). *)

NoYield == [credits |-> 0, points |-> 0]

\* lines 512 and 528: the totals with the credit and grade points of a row
AddRow(sum, r) ==
    IF r.kind = "counted"
    THEN [credits |-> sum.credits + r.credit, points |-> sum.points + r.points]
    ELSE sum

\* what the first n rows of the table t at position k add to the totals
RECURSIVE RowsYield(_, _, _, _)
RowsYield(t, ident, k, n) ==
    IF n = 0 THEN NoYield
    ELSE AddRow(RowsYield(t, ident, k, n - 1), InterpretRow(t, ident, t.rows[n], k))

\* what the table t at position k, its columns having the roles ident, adds
\* to the totals when nothing raises; nothing when it is passed over
TableYield(t, ident, k) ==
    IF HasRequiredColumns(ident)
    THEN RowsYield(t, ident, k, Len(t.rows))
    ELSE NoYield

\* the totals of the first n tables of a list, idents[k] being the roles of
\* the columns of the table list[k]
RECURSIVE ListYield(_, _, _)
ListYield(list, idents, n) ==
    IF n = 0 THEN NoYield
    ELSE LET Sum(a, b) == [credits |-> a.credits + b.credits,
                           points |-> a.points + b.points]
         IN Sum(ListYield(list, idents, n - 1),
                TableYield(list[n], idents[n], n))

Orders(n) ==
    {p \in [1..n -> 1..n] : \A i \in 1..n : \A j \in 1..n : p[i] = p[j] => i = j}

Permuted(list, p) == [i \in 1..Len(list) |-> list[p[i]]]

\* calculate_total_credits has returned and no exception was caught
ReturnedClean == returned.called /\ caught = {}

\* C15: the total credits and total grade points calculate_total_credits
\* returns for a list of tables are those of every permutation of the list
\* (credits as exact decimals, no exception caught).
C15_OrderIndependent ==
    (ReturnedClean /\ df_list # <<>>) =>
        \A p \in Orders(Len(df_list)) :
            ListYield(Permuted(df_list, p), Permuted(roles, p), Len(df_list))
                = [credits |-> returned.result[1], points |-> returned.result[2]]

\* C15 witness: a list of two tables of which only one adds credits has
\* been totalled.
C15_Witness ==
    /\ ReturnedClean
    /\ Len(df_list) = 2
    /\ TableYield(df_list[1], roles[1], 1) # TableYield(df_list[2], roles[2], 2)
    /\ returned.result[1] > 0
    /\ returned.result[2] > 0

\* lines 502 and 530: the list with the record of a row of that kind
AppendRecord(list, r, kind) ==
    IF r.kind = kind THEN Append(list, r.record) ELSE list

\* the outcomes of the first n rows of the table t at position k
RECURSIVE RowOutcomes(_, _, _, _)
RowOutcomes(t, ident, k, n) ==
    IF n = 0 THEN <<>>
    ELSE Append(RowOutcomes(t, ident, k, n - 1),
                InterpretRow(t, ident, t.rows[n], k))

\* the outcomes of the rows of the table t at position k, its columns having
\* the roles ident; none when the table is passed over
TableOutcomes(t, ident, k) ==
    IF HasRequiredColumns(ident)
    THEN RowOutcomes(t, ident, k, Len(t.rows))
    ELSE <<>>

\* the records of one kind ("counted" or "failed") among the first n outcomes
RECURSIVE Records(_, _, _)
Records(outcomes, n, kind) ==
    IF n = 0 THEN <<>>
    ELSE AppendRecord(Records(outcomes, n - 1, kind), outcomes[n], kind)

\* the records of a list that carry the table index k
FromTable(list, k) == SelectSeq(list, LAMBDA r : r.table = k)

\* the counted and the failed records with the table index k are those of
\* the first n rows of the table at position k, for some n, in row order
FromRowsInOrder(k) ==
    \E outcomes \in {TableOutcomes(df_list[k], roles[k], k)} :
    \E n \in 0..Len(outcomes) :
        /\ FromTable(calculated_courses, k) = Records(outcomes, n, "counted")
        /\ FromTable(failed_courses, k) = Records(outcomes, n, "failed")

\* the table indices of a list are positions in df_list and do not decrease
InTableOrder(list) ==
    /\ \A i \in 1..Len(list) : list[i].table \in 1..Len(df_list)
    /\ \A i \in 1..(Len(list) - 1) : list[i].table <= list[i + 1].table

\* C16: in the counted and the failed list that calculate_total_credits
\* returns, the table index of a record is the 1-based position of its table
\* in the input list, passed-over tables included, and does not decrease
\* along the list; the records of one table are in the order of its rows.
C16_EncounterOrder ==
    returned.called =>
        /\ InTableOrder(calculated_courses)
        /\ InTableOrder(failed_courses)
        /\ \A k \in 1..Len(df_list) : FromRowsInOrder(k)
        /\ df_list # <<>> =>
              /\ returned.result[3] = calculated_courses
              /\ returned.result[4] = failed_courses

\* C16 witness: the first of two tables was passed over, and the record of
\* the second carries the table index 2.
C16_Witness ==
    /\ returned.called
    /\ Len(df_list) = 2
    /\ ~IsEmptyTable(df_list[1])
    /\ Len(calculated_courses) = 1
    /\ calculated_courses[1].table = 2
    /\ failed_courses = <<>>
    /\ caught = {}

-----------------------------------------------------------------------------
(* Properties of the exception handler of calculate_total_credits (Spec). *)

\* an exception is caught in this step
Catches == caught' # caught

\* C17 (as claimed): when interpreting a row raises an exception, only that
\* row is skipped: the loop goes on with the next row of the same table.
C17_OnlyThatRowSkipped ==
    [][(Catches /\ row_idx < Len(df.rows))
          => (pc' = "rows" /\ df_idx' = df_idx /\ row_idx' = row_idx + 1)]_vars

\* the totals of the first n tables of a list without the tables at the
\* positions in excluded
RECURSIVE YieldWithout(_, _, _, _)
YieldWithout(list, idents, n, excluded) ==
    IF n = 0 THEN NoYield
    ELSE LET Sum(a, b) == [credits |-> a.credits + b.credits,
                           points |-> a.points + b.points]
         IN Sum(YieldWithout(list, idents, n - 1, excluded),
                IF n \in excluded THEN NoYield
                ELSE TableYield(list[n], idents[n], n))

\* C18 (as claimed): a table in which an exception was caught has no record
\* in the counted or the failed list and adds nothing to the totals; the
\* other tables are counted as without it.
C18_TableExcluded ==
    (returned.called /\ caught # {}) =>
        /\ \A k \in caught :
              /\ FromTable(calculated_courses, k) = <<>>
              /\ FromTable(failed_courses, k) = <<>>
        /\ YieldWithout(df_list, roles, Len(df_list), caught)
              = [credits |-> total_credits, points |-> total_gpa_points]

-----------------------------------------------------------------------------
(* Properties of the value calculate_total_credits returns (Spec). *)

\* every table of df_list is passed over: it is empty, has fewer than three
\* columns or lacks a required role
AllPassedOver ==
    \A k \in 1..Len(df_list) : ~HasRequiredColumns(roles[k])

\* C19 (as claimed): calculate_total_credits returns total credits, total
\* grade points, the counted list and the failed list for every input; for
\* an empty list and for a list of tables that are all passed over it
\* returns 0, 0 and two empty lists.
C19_SameShape ==
    returned.called =>
        /\ Len(returned.result) = 4
        /\ AllPassedOver => returned.result = <<0, 0, <<>>, <<>>>>

-----------------------------------------------------------------------------
(* Properties of the records of calculate_total_credits (Spec). *)

\* the records of both lists
AllRecords == Range(calculated_courses) \cup Range(failed_courses)

\* empty, or three or four digits
IsYearValue(s) == s = <<>> \/ (Len(s) \in {3, 4} /\ isdigit(s))

\* empty, or a token of the semester pattern in any case
IsSemesterValue(s) == s = <<>> \/ Lower(s) \in Range(semester_tokens)

\* C20: every record of the counted and the failed list has an academic
\* year that is empty or three or four digits, a semester that is empty or
\* a semester token in any case, a subject name that is not empty and a
\* credit in [0, 5].
C20_RecordFields ==
    \A r \in AllRecords :
        /\ IsYearValue(r.acad_year)
        /\ IsSemesterValue(r.semester)
        /\ Len(r.course_name) > 0
        /\ 0 <= r.credit /\ r.credit <= 5 * Scale

\* C20 witness: the last row has appended a record, and a record with the
\* year 111, the semester Fall and a credit above 0 is in the lists.
C20_Witness ==
    /\ \E r \in AllRecords :
          r.semester = c_fall /\ Len(r.acad_year) = 3 /\ r.credit > 0
    /\ RowProcessed
    /\ last_row.kind \in {"counted", "failed"}

-----------------------------------------------------------------------------
(* Properties of the classification of a row (SpecRows). *)

\* the failing grades that are no letter grades: 不通過, 未通過, 不及格, fail
\* and failed
NonLetterFailing == {g \in Range(failing_grades) : ~IsLetterGrade(g)}

\* a numeric score below 60
IsScoreBelow60(s) == IsPlainNumber(s) /\ float(s) < 60 * Scale

\* the case of C21: a data row whose GPA cell is a numeric score below 60 or
\* a failing label that is no letter grade
C21_Case ==
    /\ IsDataRow
    /\ last_row.ident["gpa"] # 0
    /\ \/ IsScoreBelow60(LastCell("gpa"))
       \/ Lower(LastCell("gpa")) \in NonLetterFailing

\* C21 (as claimed): a data row whose GPA cell holds a numeric score below
\* 60 or one of the labels 不及格, 不通過, 未通過, fail, failed is appended to
\* the failed list, not to the counted list, and its credit is not added to
\* the total credits.
C21_ScoreAndLabelFailed ==
    C21_Case =>
        /\ NewFailed = 1
        /\ NewCounted = 0
        /\ total_credits = last_row.total_credits

\* some cell of the last processed row holds a pass/exempt keyword
KeywordInRow ==
    \E c \in 1..Len(LastRow) :
        HasPassKeyword(Lower(normalize_text(Str(LastRow[c]))))

\* the case of C22: a data row that is not failing, has no detected credit
\* and holds a pass/exempt keyword in some cell
C22_Case ==
    /\ IsDataRow
    /\ ~LastFailing
    /\ LastCreditAndGpa.credit = 0
    /\ KeywordInRow

\* C22 (as claimed): a row that is not failing, has no detected credit and
\* holds one of pass, exempt, 通過, 抵免 in its grade cell, its credit cell or
\* any other cell is appended to the counted list with credit 0, and the
\* total credits are unchanged.
C22_KeywordAnywhereCounted ==
    C22_Case =>
        /\ NewCounted = 1
        /\ NewFailed = 0
        /\ LastCounted.credit = 0
        /\ total_credits = last_row.total_credits

-----------------------------------------------------------------------------
(* Properties of the extraction of a row's values (Spec). *)

\* a composite cell: a number in (0, 5] and a failing letter grade, in
\* either order, with or without spaces between them
IsFailingComposite(s) ==
    \E p \in Splits(s) :
        /\ IsSpacesText(p.spaces)
        /\ \/ (/\ IsCreditNumber(p.first)
               /\ IsLetterGrade(p.last) /\ IsFailingLetter(p.last))
           \/ (/\ IsLetterGrade(p.first) /\ IsFailingLetter(p.first)
               /\ IsCreditNumber(p.last))

\* the case of C23: a data row of a table with a Credit column and no GPA
\* column whose credit cell is such a composite
C23_Case ==
    /\ IsDataRow
    /\ last_row.ident["credit"] # 0
    /\ last_row.ident["gpa"] = 0
    /\ IsFailingComposite(LastCell("credit"))

\* C23 (as claimed): when one column has the Credit role and none the GPA
\* role, a row whose cell in that column encodes a credit in (0, 5] and a
\* failing letter grade is appended to the failed list only, and its credit
\* is not added to the total credits.
C23_CompositeFailed ==
    C23_Case =>
        /\ NewFailed = 1
        /\ NewCounted = 0
        /\ total_credits = last_row.total_credits

\* the record the last processed row appended
LastRecord ==
    IF last_row.kind = "counted" THEN LastCounted
    ELSE failed_courses[Len(failed_courses)]

\* the value of a pattern ("year" or "semester") in a cell
ValueIn(pattern, cell) ==
    IF pattern = "year" THEN year_match(normalize_text(Str(cell)))
    ELSE sem_match(normalize_text(Str(cell)))

\* the value of a pattern in the first of the columns i..limit of a row that
\* matches it
RECURSIVE FirstFound(_, _, _, _)
FirstFound(pattern, row, i, limit) ==
    IF i > limit THEN <<>>
    ELSE IF ValueIn(pattern, row[i]) # <<>> THEN ValueIn(pattern, row[i])
    ELSE FirstFound(pattern, row, i + 1, limit)

\* the value of a pattern read from the column assigned to it
FromAssigned(pattern, ident, row) ==
    IF ident[pattern] # 0 THEN ValueIn(pattern, row[ident[pattern]]) ELSE <<>>

\* the value of a pattern when the first three columns are scanned whenever
\* the year or the semester is absent after the assigned columns
WithScan(pattern, ident, row) ==
    IF FromAssigned(pattern, ident, row) # <<>>
    THEN FromAssigned(pattern, ident, row)
    ELSE IF FromAssigned("year", ident, row) = <<>>
            \/ FromAssigned("semester", ident, row) = <<>>
    THEN FirstFound(pattern, row, 1, Min(Len(row), 3))
    ELSE <<>>

\* C24 (as claimed): when the year or the semester of a row is absent after
\* the assigned Year and Semester columns are read, each missing value is
\* that of the first of the first three columns that matches its pattern,
\* and a value already found is kept.
C24_ScanWhenEitherAbsent ==
    (IsDataRow /\ last_row.kind \in {"counted", "failed"}) =>
        /\ LastRecord.acad_year = WithScan("year", last_row.ident, LastRow)
        /\ LastRecord.semester = WithScan("semester", last_row.ident, LastRow)

\* the case of C25: a data row that gave a record, in a table with a
\* CourseCode column, whose cell in that column matches the code pattern
C25_Case ==
    /\ IsDataRow
    /\ last_row.kind \in {"counted", "failed"}
    /\ last_row.ident["course_code"] # 0
    /\ IsCodePattern(LastCell("course_code"))

\* C25 (as claimed): when a CourseCode column is assigned and the row's cell
\* in it matches the code pattern (3 to 8 alphanumeric characters), the
\* record of the row carries that course code.
C25_RecordCarriesCode ==
    C25_Case =>
        /\ "course_code" \in DOMAIN LastRecord
        /\ LastRecord["course_code"] = LastCell("course_code")

-----------------------------------------------------------------------------
(* Properties of the role assignment (SpecRows). *)

\* the roles a candidate of a role may be given
Targets(role) ==
    IF role = "credit_gpa_combined" THEN {"credit", "gpa"} ELSE {role}

\* no role has the column
ColumnFree(ident, c) == \A r \in HeaderRoleSet : ident[r] # c

\* the role, or one of the two roles of a combined candidate, has no column
RoleFree(ident, role) == \E r \in Targets(role) : ident[r] = 0

\* the first n candidates in the order in which the loop takes them
RECURSIVE Listed(_, _)
Listed(cands, n) ==
    IF n = 0 THEN <<>> ELSE Append(Listed(cands, n - 1), cands[n])

\* descending score and, among equal scores, ascending column index
InSortOrder(cands) ==
    \A i \in 1..Len(cands) : \A j \in 1..Len(cands) :
        i < j => \/ cands[i].score > cands[j].score
                 \/ /\ cands[i].score = cands[j].score
                    /\ cands[i].col <= cands[j].col

\* a candidate whose column and role are both free is given the role, and
\* any other candidate changes nothing
GreedyStep(before, after, cand) ==
    IF ColumnFree(before, cand.col) /\ RoleFree(before, cand.role)
    THEN \E r \in Targets(cand.role) :
            before[r] = 0 /\ after = [before EXCEPT ![r] = cand.col]
    ELSE after = before

\* of two columns with the same score for a role, both free when the first
\* of their candidates is taken, the left one has the role in the end
LeftmostWins(cands, trace, ident) ==
    \A i \in 1..Len(cands) : \A j \in 1..Len(cands) :
        ( /\ cands[i].role = cands[j].role
          /\ cands[i].score = cands[j].score
          /\ cands[i].col < cands[j].col
          /\ ColumnFree(trace[Min(i, j)], cands[i].col)
          /\ ColumnFree(trace[Min(i, j)], cands[j].col)
          /\ RoleFree(trace[Min(i, j)], cands[i].role) )
        => \E r \in Targets(cands[i].role) : ident[r] = cands[i].col

\* the roles of the table at the end of roles have just been assigned
RolesJustAssigned ==
    /\ Len(roles) >= 1
    /\ ~(IsEmptyTable(df_list[Len(roles)]) \/ NumCols(df_list[Len(roles)]) < 3)
    /\ \/ pc = "rows" /\ row_idx = 1
       \/ pc = "table" /\ ~HasRequiredColumns(roles[Len(roles)])

\* C26: the candidates of the role assignment are those with a score above
\* 0, taken in descending score order and, among equal scores, in ascending
\* column index; a candidate whose column and role are both unclaimed when
\* it is taken is assigned, so no assigned pair comes after an unclaimed
\* candidate of higher score; and of two unclaimed columns with the same
\* score for a role the leftmost gets the role.
C26_GreedyLeftmost ==
    RolesJustAssigned =>
        \E t \in {df_list[Len(roles)]} :
        \E cands \in {Listed(candidate_assignments(t), Cardinality(Candidates(t)))} :
        \E trace \in {AssignTrace(t, cands, Len(cands))} :
            /\ Range(cands) = Candidates(t)
            /\ \A i \in 1..Len(cands) : cands[i].score > 0
            /\ InSortOrder(cands)
            /\ \A i \in 1..Len(cands) : GreedyStep(trace[i], trace[i + 1], cands[i])
            /\ trace[Len(cands) + 1] = identified_columns
            /\ LeftmostWins(cands, trace, identified_columns)

\* C26 witness: the roles of a table have been assigned in which two columns
\* had the same score for a role and the left one got it, and in which a
\* column got its role before a column to its left with a lower score.
C26_Witness ==
    /\ RolesJustAssigned
    /\ \E x \in Candidates(df_list[Len(roles)]) :
       \E y \in Candidates(df_list[Len(roles)]) :
          /\ x.role = y.role
          /\ x.role \in HeaderRoleSet
          /\ x.score = y.score
          /\ x.col < y.col
          /\ identified_columns[x.role] = x.col
    /\ \E u \in Candidates(df_list[Len(roles)]) :
       \E v \in Candidates(df_list[Len(roles)]) :
          /\ u.score > v.score
          /\ u.col > v.col
          /\ u.role \in HeaderRoleSet
          /\ v.role \in HeaderRoleSet
          /\ identified_columns[u.role] = u.col
          /\ identified_columns[v.role] = v.col

-----------------------------------------------------------------------------
(* Properties of the credit-only step of parse_credit_and_gpa (SpecParse). *)

\* the numbers of a text from position i on: the matches of \d+(\.\d+)?,
\* left to right and without overlap
RECURSIVE NumbersFrom(_, _)
NumbersFrom(s, i) ==
    IF i > Len(s) THEN {}
    ELSE IF IsDigit(s[i])
    THEN {SubSeq(s, i, NumberEnd(s, i) - 1)} \cup NumbersFrom(s, NumberEnd(s, i))
    ELSE NumbersFrom(s, i + 1)

\* the numbers of a text that lie in [0.0, 5.0]
CreditsIn(s) == {n \in NumbersFrom(s, 1) : float(n) <= 5 * Scale}

\* the text begins with a grade and a number, or a number and a grade, and
\* the number lies in [0.0, 5.0]
BeginsWithPair(s) ==
    \/ match_gpa_credit(s).ok /\ float(match_gpa_credit(s).num) <= 5 * Scale
    \/ match_credit_gpa(s).ok /\ float(match_credit_gpa(s).num) <= 5 * Scale

\* the case of C27: no pass/exempt keyword, no accepted pair at the start,
\* and a number within [0.0, 5.0] somewhere in the text
C27_Case ==
    /\ parsed.called
    /\ ~HasPassKeyword(Lower(NormalizedText))
    /\ ~BeginsWithPair(Lower(NormalizedText))
    /\ CreditsIn(Lower(NormalizedText)) # {}

\* C27 (as claimed): for a text without pass/exempt keyword that does not
\* begin with an accepted pair and holds a number within [0.0, 5.0],
\* parse_credit_and_gpa returns a number of the text within [0.0, 5.0] as
\* the credit, wherever that number stands among the numbers of the text.
C27_AnyNumberInRange ==
    C27_Case =>
        \E n \in CreditsIn(Lower(NormalizedText)) : parsed.result.credit = float(n)

-----------------------------------------------------------------------------
(* Properties of the acceptance of a table (Spec). *)

\* C28 (as claimed): calculate_total_credits runs the row interpreter over
\* the rows of a table if and only if is_grades_table returns true for the
\* table.
C28_InterpretsIffAccepted ==
    \A k \in 1..Len(roles) :
        HasRequiredColumns(roles[k]) <=> is_grades_table(df_list[k])

-----------------------------------------------------------------------------
(* Properties of the suffix of make_unique_columns (SpecColumns). *)

\* the names emitted before the name at position i
EmittedBefore(i) == {unique_columns[j] : j \in 1..(i - 1)}

\* the name at position i is the form followed by _K for the smallest K >= 1
\* that gives a name not emitted before
SmallestSuffix(form, i) ==
    \E K \in 1..Len(columns_list) :
        /\ unique_columns[i] = Suffixed(form, K)
        /\ Suffixed(form, K) \notin EmittedBefore(i)
        /\ \A k \in 1..(K - 1) : Suffixed(form, k) \in EmittedBefore(i)

\* C29: a label of two or more characters whose normalized form is a name
\* emitted before it is output as that form followed by _K, K the smallest
\* integer >= 1 for which the result is none of the names emitted before it,
\* also when suffixed forms occur as raw labels.
C29_SmallestSuffix ==
    \A i \in 1..Len(unique_columns) :
        \A form \in {normalize_text(columns_list[i])} :
            (Len(form) >= 2 /\ form \in EmittedBefore(i))
                => SmallestSuffix(form, i)

\* C29 witness: the raw label with the suffix _1 came first, and a later
\* label whose form was emitted before it has been given the suffix _2.
C29_Witness ==
    /\ made.called
    /\ \E i \in 1..Len(unique_columns) :
          /\ normalize_text(columns_list[i]) = l_xuefen
          /\ l_xuefen \in EmittedBefore(i)
          /\ unique_columns[i] = Suffixed(l_xuefen, 2)
          /\ \E j \in 1..(i - 1) : columns_list[j] = Str(Suffixed(l_xuefen, 1))

-----------------------------------------------------------------------------
(* process_pdf_file_with_pdfplumber and main, up to the call of            *)
(* calculate_total_credits (SpecMain).  A table of pdfplumber is its rows  *)
(* of cells; the tables of the pages are taken in one sequence.            *)

\* one turn of the loop of make_unique_columns
NameOne(before, col) ==
    LET Named(name) ==
            LET Final(f) ==
                    [unique |-> Append(before.unique, f.final_name),
                     seen |-> SeenWith(before.seen, name, f.counter)]
            IN Final(FinalName(name, name, SeenCount(before.seen, name),
                               before.unique))
    IN Named(ColumnName(col, before.unique))

RECURSIVE NamedUpTo(_, _)
NamedUpTo(labels, n) ==
    IF n = 0 THEN [unique |-> <<>>, seen |-> NoneSeen]
    ELSE NameOne(NamedUpTo(labels, n - 1), labels[n])

\* make_unique_columns(labels)
make_unique_columns(labels) == NamedUpTo(labels, Len(labels)).unique

\* [normalize_text(cell) for cell in row]
RECURSIVE normalized_row(_)
normalized_row(row) ==
    IF Len(row) = 0 THEN <<>>
    ELSE <<normalize_text(row[1])>> \o normalized_row(Tail(row))

\* any(cell.strip() != "" for cell in normalized_row)
HasText(cells) == \E c \in 1..Len(cells) : Strip(cells[c]) # <<>>

\* lines 605-609: the normalized rows that are not blank
RECURSIVE processed_table(_)
processed_table(table) ==
    IF Len(table) = 0 THEN <<>>
    ELSE LET Keep(cells) == IF HasText(cells) THEN <<cells>> ELSE <<>>
         IN Keep(normalized_row(table[1])) \o processed_table(Tail(table))

\* max(len(row_data) for row_data in processed_table)
RECURSIVE max_cols(_)
max_cols(rows) ==
    IF Len(rows) = 0 THEN 0
    ELSE LET Larger(m) == IF Len(rows[1]) > m THEN Len(rows[1]) ELSE m
         IN Larger(max_cols(Tail(rows)))

\* [''] * n
RECURSIVE Blanks(_)
Blanks(n) == IF n <= 0 THEN <<>> ELSE <<<<>>>> \o Blanks(n - 1)

\* a row cut or padded to n cells (lines 629-635 and 653-659)
FitRow(row_data, n) ==
    IF Len(row_data) > n THEN SubSeq(row_data, 1, n)
    ELSE row_data \o Blanks(n - Len(row_data))

RECURSIVE FitRows(_, _)
FitRows(rows, n) ==
    IF Len(rows) = 0 THEN <<>>
    ELSE <<FitRow(rows[1], n)>> \o FitRows(Tail(rows), n)

RECURSIVE AsLabels(_)
AsLabels(cells) ==
    IF Len(cells) = 0 THEN <<>>
    ELSE <<Str(cells[1])>> \o AsLabels(Tail(cells))

\* lines 618-620: the first row padded to the width of the table
padded_header_row(processed) == FitRow(processed[1], max_cols(processed))

\* line 623
header_keyword_count(processed) ==
    Cardinality({c \in 1..max_cols(processed) :
                    HeaderKey(padded_header_row(processed)[c])
                        \in all_header_keywords_flat_lower})

\* lines 621-639: the table with its first row as the header
df_table_with_assumed_header(processed) ==
    [columns |-> make_unique_columns(AsLabels(padded_header_row(processed))),
     rows |-> FitRows(Tail(processed), max_cols(processed))]

\* [f"Column_{i+1}" for i in range(max_cols)]
RECURSIVE GenericLabels(_)
GenericLabels(n) ==
    IF n = 0 THEN <<>> ELSE Append(GenericLabels(n - 1), Str(Suffixed(name_base, n)))

\* lines 649-663: the table with generic labels, all rows being data
df_table_all_data(processed) ==
    [columns |-> make_unique_columns(GenericLabels(max_cols(processed))),
     rows |-> FitRows(processed, max_cols(processed))]

\* lines 611-672: df_table_to_add, as a list of no or one table
TablesToAdd(processed) ==
    LET Generic(df_all) == IF is_grades_table(df_all) THEN <<df_all>> ELSE <<>>
        Headed(df_headed) ==
            IF is_grades_table(df_headed) THEN <<df_headed>>
            ELSE Generic(df_table_all_data(processed))
    IN  IF Len(processed) = 0 THEN <<>>
        ELSE IF Len(processed) > 1 /\ header_keyword_count(processed) >= 3
        THEN Headed(df_table_with_assumed_header(processed))
        ELSE Generic(df_table_all_data(processed))

\* the number of tables pdfplumber extracts from a file
MaxPdfTables == 2

\* a row as pdfplumber gives it: a cell without text is None
RawRow(cells) ==
    [c \in 1..Len(cells) |-> IF cells[c] = <<>> THEN None ELSE Str(cells[c])]

\* the texts above the columns of a layout
HeaderTexts(layout) == [c \in 1..Len(layout) |-> HeaderText(layout[c].label)]

\* the tables pdfplumber may extract for a layout: regular rows with and
\* without the row of header texts, and a table whose last row is short
RawTablesOf(layout) ==
    LET one == SeqsOf(RegularRows(layout), 1)
        two == SeqsOf(RegularRows(layout), 2)
    IN    {<<RawRow(HeaderTexts(layout)), RawRow(rows[1])>> : rows \in one}
     \cup {<<RawRow(rows[1])>> : rows \in one}
     \cup {<<RawRow(rows[1]), RawRow(rows[2])>> : rows \in two}
     \cup {<<RawRow(HeaderTexts(layout)), RawRow(rows[1]),
             RawRow(SubSeq(rows[1], 1, Len(layout) - 1))>> : rows \in one}

\* the tables of pdfplumber: those of the layouts, a table without rows, a
\* table of blank cells, and a row of header texts alone
RawTables ==
    UNION {RawTablesOf(layout) : layout \in Layouts}
    \cup {<<>>, <<<<None, Str(<<" ">>), Str(<<>>)>>>>}
    \cup {<<RawRow(HeaderTexts(layout))>> : layout \in Layouts}

RECURSIVE RawListsOfLen(_)
RawListsOfLen(n) ==
    IF n = 0 THEN {<<>>}
    ELSE {Append(l, t) : l \in RawListsOfLen(n - 1), t \in RawTables}

\* 學年度
h_year_full == <<"U5B78", "U5E74", "U5EA6">>

\* the columns of a table of process_pdf_file_with_ocr (lines 725-732)
OcrColumns == <<h_year_full, h_semester, h_code, h_subject, h_credit, h_gpa>>

\* what process_pdf_file_with_ocr returns: no table, or one table of the
\* six mapped columns
OcrResults ==
    {<<>>,
     <<[columns |-> OcrColumns,
        rows |-> <<<<c_year, c_first, c_code, c_physics, c_three, c_A>>>>]>>}

\* main has called process_pdf_file_with_pdfplumber (lines 779-783, 556-557)
MainInit ==
    /\ \E n \in 0..MaxPdfTables : pdf_tables \in RawListsOfLen(n)
    /\ ocr_result \in OcrResults
    /\ table_idx = 1
    /\ all_grades_data_dfs = <<>>
    /\ pdfplumber_success = FALSE
    /\ extracted_dfs = <<>>
    /\ pdfplumber_extracted_successfully = FALSE
    /\ main_pc = "pdfplumber"
    /\ ocr_called = FALSE
    /\ ParseIdle
    /\ ColumnsIdle
    /\ accepted = NotYet
    /\ CalcIdle

\* lines 604-676: one turn of the loop over the tables
ExtractTable ==
    /\ main_pc = "pdfplumber"
    /\ table_idx \in 1..Len(pdf_tables)
    /\ \E add \in {TablesToAdd(processed_table(pdf_tables[table_idx]))} :
          /\ all_grades_data_dfs' = all_grades_data_dfs \o add
          /\ pdfplumber_success' = (pdfplumber_success \/ add # <<>>)
    /\ table_idx' = table_idx + 1
    /\ UNCHANGED <<pdf_tables, ocr_result, extracted_dfs,
                   pdfplumber_extracted_successfully, main_pc, ocr_called>>
    /\ UNCHANGED <<text, parsed, ColumnVars, accepted, CalcVars>>

\* lines 678-684: an exception leaves the with block and is handled
PdfplumberRaises ==
    /\ main_pc = "pdfplumber"
    /\ pdfplumber_success' = FALSE
    /\ main_pc' = "handled"
    /\ UNCHANGED <<pdf_tables, table_idx, all_grades_data_dfs, ocr_result,
                   extracted_dfs, pdfplumber_extracted_successfully, ocr_called>>
    /\ UNCHANGED <<text, parsed, ColumnVars, accepted, CalcVars>>

\* line 686 and the assignment of line 783
ReturnTables ==
    /\ \/ main_pc = "pdfplumber" /\ table_idx = Len(pdf_tables) + 1
       \/ main_pc = "handled"
    /\ extracted_dfs' = all_grades_data_dfs
    /\ pdfplumber_extracted_successfully' = pdfplumber_success
    /\ main_pc' = "extracted"
    /\ UNCHANGED <<pdf_tables, table_idx, all_grades_data_dfs,
                   pdfplumber_success, ocr_result, ocr_called>>
    /\ UNCHANGED <<text, parsed, ColumnVars, accepted, CalcVars>>

\* lines 785-788
RunOcr ==
    /\ main_pc = "extracted"
    /\ ~pdfplumber_extracted_successfully \/ extracted_dfs = <<>>
    /\ extracted_dfs' = ocr_result
    /\ ocr_called' = TRUE
    /\ main_pc' = "ready"
    /\ UNCHANGED <<pdf_tables, table_idx, all_grades_data_dfs,
                   pdfplumber_success, ocr_result,
                   pdfplumber_extracted_successfully>>
    /\ UNCHANGED <<text, parsed, ColumnVars, accepted, CalcVars>>

\* line 785, the condition being false
KeepTables ==
    /\ main_pc = "extracted"
    /\ ~(~pdfplumber_extracted_successfully \/ extracted_dfs = <<>>)
    /\ main_pc' = "ready"
    /\ UNCHANGED <<pdf_tables, table_idx, all_grades_data_dfs,
                   pdfplumber_success, ocr_result, extracted_dfs,
                   pdfplumber_extracted_successfully, ocr_called>>
    /\ UNCHANGED <<text, parsed, ColumnVars, accepted, CalcVars>>

\* lines 790-798: calculate_total_credits(extracted_dfs) is called
CallCalculate ==
    /\ main_pc = "ready"
    /\ extracted_dfs # <<>>
    /\ df_list' = extracted_dfs
    /\ pc' = "entry"
    /\ df_idx' = 1
    /\ main_pc' = "calculating"
    /\ UNCHANGED <<pdf_tables, table_idx, all_grades_data_dfs,
                   pdfplumber_success, ocr_result, extracted_dfs,
                   pdfplumber_extracted_successfully, ocr_called>>
    /\ UNCHANGED <<text, parsed, ColumnVars, accepted, row_idx,
                   identified_columns, total_credits, total_gpa_points,
                   calculated_courses, failed_courses, last_row, roles, caught,
                   returned>>

\* lines 871-872: no table was extracted
NoTables ==
    /\ main_pc = "ready"
    /\ extracted_dfs = <<>>
    /\ main_pc' = "done"
    /\ UNCHANGED <<pdf_tables, table_idx, all_grades_data_dfs,
                   pdfplumber_success, ocr_result, extracted_dfs,
                   pdfplumber_extracted_successfully, ocr_called>>
    /\ UNCHANGED <<text, parsed, ColumnVars, accepted, CalcVars>>

MainNext ==
    \/ ExtractTable
    \/ PdfplumberRaises
    \/ ReturnTables
    \/ RunOcr
    \/ KeepTables
    \/ CallCalculate
    \/ NoTables

SpecMain == MainInit /\ [][MainNext]_vars

-----------------------------------------------------------------------------
(* Properties of main (SpecMain). *)

\* C30 (as claimed): the OCR extraction is run only when the pdfplumber
\* extraction collected no accepted table, and the tables it collected are
\* the ones passed to calculate_total_credits.
C30_OcrOnlyWithoutTables ==
    /\ ocr_called => all_grades_data_dfs = <<>>
    /\ (main_pc = "calculating" /\ all_grades_data_dfs # <<>>)
          => df_list = all_grades_data_dfs

====
